---- MODULE Spec2Model ----
(***************************************************************************)
(* Domain expiry monitor: the Monitor Engine (CheckAllDomains,             *)
(* CheckDomain, CheckAndNotify), the Lookup Client (QueryDomain) and the   *)
(* Notification Dispatcher (SendNotification, recordNotification), as a    *)
(* state machine over the persisted domain and notification tables.        *)
(*                                                                         *)
(* Time is counted in hours.  An error value is the chain of its messages, *)
(* outermost first: fmt.Errorf("m: %w", e) puts "m" in front of e's chain, *)
(* and the nil error is the empty chain.                                   *)
(***************************************************************************)
EXTENDS Integers, Sequences, FiniteSets, TLC

\* ------------------------------------------------------------------ bounds

\* number of rows of the domains table
NumDomains == 2
\* how many times the clock advances
MaxTicks == 1
\* rows the notifications table may hold before dispatches stop being explored
MaxNotifications == 2
\* operations a behaviour of the handlers is made of
MaxOps == 3

\* ------------------------------------------------------- program constants

\* the divisor of time.Until(...).Hours() / 24
HoursPerDay == 24
\* http.StatusOK
StatusOK == 200

\* ------------------------------------------------------------ value spaces

DomainIDs == 1..NumDomains
Procs == {"cron", "http"}

\* time.Time{}: the zero time, for which IsZero() holds
ZeroTime == 0
TickHours == HoursPerDay \div 2
StartTime == 30 * HoursPerDay
MaxTime == StartTime + MaxTicks * TickHours
\* how many lookups a behaviour makes: a batch over every row, or as many checks
MaxLookups == NumDomains

Nil == <<>>
Pending == <<"<pending>">>

Wrap(msg, err) == <<msg>> \o err
Unwrap(err) == Tail(err)

\* ------------------------------------------------------------ Lookup Client

\* The formats parseDate tries, in order.  A date string is modelled by the
\* layout it is written in and the instant it denotes; a date-only string
\* denotes the midnight of its day.
DateLayouts == <<"rfc3339", "isoZ", "datetime", "date">>

\* time.Parse(format, dateStr): succeeds iff the string is written in that layout
\* ("isoZ" strings are also valid RFC3339)
TimeParse(format, ds) ==
    IF ds.layout = format \/ (format = "rfc3339" /\ ds.layout = "isoZ")
    THEN [t |-> IF ds.layout = "date" THEN (ds.t \div HoursPerDay) * HoursPerDay ELSE ds.t,
          err |-> Nil]
    ELSE [t |-> ZeroTime, err |-> <<"parsing time">>]

RECURSIVE parseDateFrom(_, _)
parseDateFrom(i, ds) ==
    IF i > Len(DateLayouts)
    THEN [t |-> ZeroTime, err |-> <<"unable to parse date">>]
    ELSE IF TimeParse(DateLayouts[i], ds).err = Nil
         THEN TimeParse(DateLayouts[i], ds)
         ELSE parseDateFrom(i + 1, ds)

parseDate(ds) == parseDateFrom(1, ds)

\* a date field of the payload: absent (or not a string), or a string
DateField(f) == IF f.present /\ parseDate(f).err = Nil THEN parseDate(f).t ELSE ZeroTime

NoInfo == [registrar |-> "", expiry |-> ZeroTime, created |-> ZeroTime,
           updated |-> ZeroTime, status |-> ""]

\* variant: the HTTP status of the answer is not looked at
QueryDomainSkipsStatus(name, resp) ==
    IF ~resp.transport
    THEN [info |-> NoInfo, err |-> Wrap("failed to query WHOIS", <<"transport error">>)]
    ELSE IF ~resp.decode
    THEN [info |-> NoInfo, err |-> Wrap("failed to parse WHOIS response", <<"json error">>)]
    ELSE IF resp.code # 0
    THEN [info |-> NoInfo, err |-> <<"WHOIS API error", resp.msg>>]
    ELSE IF ~resp.data
    THEN [info |-> NoInfo, err |-> <<"no data in WHOIS response">>]
    ELSE [info |-> [registrar |-> IF resp.registrar.present THEN resp.registrar.v ELSE "",
                    status    |-> IF resp.status.present THEN resp.status.v ELSE "",
                    expiry    |-> DateField(resp.expirationDate),
                    created   |-> DateField(resp.creationDate),
                    updated   |-> DateField(resp.updatedDate)],
          err |-> Nil]

\* variant: a date string that does not parse fails the lookup
QueryDomainStrictDates(name, resp) ==
    IF ~resp.transport
    THEN [info |-> NoInfo, err |-> Wrap("failed to query WHOIS", <<"transport error">>)]
    ELSE IF resp.http # StatusOK
    THEN [info |-> NoInfo, err |-> <<"WHOIS API returned status">>]
    ELSE IF ~resp.decode
    THEN [info |-> NoInfo, err |-> Wrap("failed to parse WHOIS response", <<"json error">>)]
    ELSE IF resp.code # 0
    THEN [info |-> NoInfo, err |-> <<"WHOIS API error", resp.msg>>]
    ELSE IF ~resp.data
    THEN [info |-> NoInfo, err |-> <<"no data in WHOIS response">>]
    ELSE IF \E f \in {resp.expirationDate, resp.creationDate, resp.updatedDate} :
                f.present /\ parseDate(f).err # Nil
    THEN [info |-> NoInfo, err |-> <<"unable to parse date">>]
    ELSE [info |-> [registrar |-> IF resp.registrar.present THEN resp.registrar.v ELSE "",
                    status    |-> IF resp.status.present THEN resp.status.v ELSE "",
                    expiry    |-> DateField(resp.expirationDate),
                    created   |-> DateField(resp.creationDate),
                    updated   |-> DateField(resp.updatedDate)],
          err |-> Nil]

\* QueryDomain on the answer `resp` of the remote endpoint: (info, err)
QueryDomain(name, resp) ==
    IF ~resp.transport
    THEN [info |-> NoInfo, err |-> Wrap("failed to query WHOIS", <<"transport error">>)]
    ELSE IF resp.http # StatusOK
    THEN [info |-> NoInfo, err |-> <<"WHOIS API returned status">>]
    ELSE IF ~resp.decode
    THEN [info |-> NoInfo, err |-> Wrap("failed to parse WHOIS response", <<"json error">>)]
    ELSE IF resp.code # 0
    THEN [info |-> NoInfo, err |-> <<"WHOIS API error", resp.msg>>]
    ELSE IF ~resp.data
    THEN [info |-> NoInfo, err |-> <<"no data in WHOIS response">>]
    ELSE [info |-> [registrar |-> IF resp.registrar.present THEN resp.registrar.v ELSE "",
                    status    |-> IF resp.status.present THEN resp.status.v ELSE "",
                    expiry    |-> DateField(resp.expirationDate),
                    created   |-> DateField(resp.creationDate),
                    updated   |-> DateField(resp.updatedDate)],
          err |-> Nil]

\* ---- answers of the endpoint explored by the monitor specification

Str(v) == [present |-> TRUE, v |-> v]
NoStr == [present |-> FALSE, v |-> ""]
Date(layout, t) == [present |-> TRUE, layout |-> layout, t |-> t]
NoDate == [present |-> FALSE, layout |-> "none", t |-> ZeroTime]

Envelope(transport, http, code, msg) ==
    [transport |-> transport, http |-> http, decode |-> TRUE, code |-> code, msg |-> msg,
     data |-> FALSE, registrar |-> NoStr, status |-> NoStr,
     expirationDate |-> NoDate, creationDate |-> NoDate, updatedDate |-> NoDate]

Payload(registrar, status, exp, cr, up) ==
    [Envelope(TRUE, StatusOK, 0, "success") EXCEPT
        !.data = TRUE, !.registrar = registrar, !.status = status,
        !.expirationDate = exp, !.creationDate = cr, !.updatedDate = up]

\* a key that holds a value of another type than a string: the type assertion
\* fails as it does for a key that is absent
NotStr == [present |-> FALSE, v |-> "<number>"]
NotDate == [present |-> FALSE, layout |-> "<number>", t |-> ZeroTime]

\* a payload with every field well formed
FullPayload ==
    Payload(Str("regA"), Str("ok"), Date("date", StartTime + 2 * HoursPerDay + TickHours),
            Date("datetime", StartTime - 20 * HoursPerDay), Date("isoZ", StartTime - HoursPerDay))

\* the answers the Lookup Client is explored with: the full payload behind a
\* failed transport, an HTTP error status and a non-zero envelope code; bare
\* failing envelopes; a body that is no JSON; a success envelope without
\* payload; and the payloads whose fields are, one by one, well formed, absent,
\* of another type or unparseable
LookupResponses ==
    { [FullPayload EXCEPT !.transport = FALSE],
      [FullPayload EXCEPT !.http = 500],
      [FullPayload EXCEPT !.code = 1, !.msg = "quota"],
      Envelope(FALSE, 0, 0, ""),
      Envelope(TRUE, 404, 0, ""),
      Envelope(TRUE, StatusOK, -1, "denied"),
      [Envelope(TRUE, StatusOK, 0, "") EXCEPT !.decode = FALSE],
      Envelope(TRUE, StatusOK, 0, "success") }
    \cup
    { Payload(rg, st, ex, cr, up) :
        rg \in {Str("regA"), NoStr, NotStr},
        st \in {Str("ok"), NoStr, NotStr},
        ex \in {FullPayload.expirationDate, NoDate, Date("garbage", StartTime)},
        cr \in {FullPayload.creationDate, NotDate},
        up \in {FullPayload.updatedDate, Date("garbage", StartTime + 1)} }

\* two failing answers; a payload without expiry; payloads expiring a day and a
\* quarter after StartTime and a day and a quarter before it
MonitorResponses ==
    { Envelope(FALSE, 0, 0, ""),
      Envelope(TRUE, StatusOK, 1, "quota"),
      Payload(Str("regA"), NoStr, NoDate, Date("date", StartTime - 10 * HoursPerDay), NoDate),
      Payload(Str("regB"), Str("ok"), Date("rfc3339", StartTime + HoursPerDay + TickHours \div 2),
              Date("datetime", StartTime - 20 * HoursPerDay), Date("isoZ", StartTime - HoursPerDay)),
      Payload(Str("regC"), Str("hold"), Date("datetime", StartTime - HoursPerDay - TickHours \div 2),
              NoDate, Date("garbage", StartTime)) }

\* ------------------------------------------------------------ configuration

\* Monitor.AlertDays: any list of integers the configuration file holds
AlertDaysChoices == { <<1, 0, 1>>, <<7, -1, 1>> }

Flags(email, webhook, telegram, dingding) ==
    [email |-> email, webhook |-> webhook, telegram |-> telegram, dingding |-> dingding]

\* the enabled flags of the four channels
NotificationConfigs ==
    { Flags(FALSE, FALSE, FALSE, FALSE),
      Flags(TRUE, FALSE, FALSE, FALSE),
      Flags(FALSE, TRUE, FALSE, TRUE) }

\* every combination of the four enabled flags
AllNotificationConfigs ==
    { Flags(e, w, t, d) : e \in BOOLEAN, w \in BOOLEAN, t \in BOOLEAN, d \in BOOLEAN }

\* the channels in the order NewNotifyService looks at their flags
ChannelOrder ==
    <<"*services.EmailNotifier", "*services.WebhookNotifier",
      "*services.TelegramNotifier", "*services.DingDingNotifier">>

\* variant: the bot-chat sender is appended after the signed-webhook sender
NewNotifyServiceSwapped(cfg) ==
    (IF cfg.email THEN <<"*services.EmailNotifier">> ELSE <<>>)
    \o (IF cfg.webhook THEN <<"*services.WebhookNotifier">> ELSE <<>>)
    \o (IF cfg.dingding THEN <<"*services.DingDingNotifier">> ELSE <<>>)
    \o (IF cfg.telegram THEN <<"*services.TelegramNotifier">> ELSE <<>>)

\* NewNotifyService: the senders of the enabled channels, in declaration order
NewNotifyService(cfg) ==
    (IF cfg.email THEN <<"*services.EmailNotifier">> ELSE <<>>)
    \o (IF cfg.webhook THEN <<"*services.WebhookNotifier">> ELSE <<>>)
    \o (IF cfg.telegram THEN <<"*services.TelegramNotifier">> ELSE <<>>)
    \o (IF cfg.dingding THEN <<"*services.DingDingNotifier">> ELSE <<>>)

\* main() always hands NewMonitorService a NotifyService
NotifyServiceAvailable == TRUE

\* ------------------------------------------------------------ domain records

DomainName(id) == <<"domain", id>>

\* the row CreateDomain / ImportDomains insert: active, monitoring fields zero
\* (the audit columns CreatedAt / UpdatedAt, which no operation reads, are left out)
NewDomain(id) ==
    [id |-> id, name |-> DomainName(id), registrar |-> "", expiry |-> ZeroTime,
     created |-> ZeroTime, updated |-> ZeroTime, status |-> "", days |-> 0,
     tags |-> "", lastChecked |-> ZeroTime, active |-> TRUE]

NoDomain == [NewDomain(0) EXCEPT !.active = FALSE]

\* variant: the batch loads every row of the table
ActiveDomainsAll(rows) == SelectSeq([i \in DomainIDs |-> rows[i]], LAMBDA d : d.id # 0)

\* db.Where("is_active = ?", true).Find(&domains): the active rows, by primary key
ActiveDomains(rows) == SelectSeq([i \in DomainIDs |-> rows[i]], LAMBDA d : d.active)

DBError == <<"database error">>

\* db.First(&domain, id) finds a row
Found(rows, id) == id \in DomainIDs /\ rows[id].id = id

\* what is left where a row was deleted: its primary key is not given again
DeletedDomain == [NoDomain EXCEPT !.name = <<"deleted", 0>>]

\* the primary key db.Create gives the next row: rows are numbered as inserted
NextID(rows) == Cardinality({ i \in DomainIDs : rows[i] # NoDomain }) + 1

\* the row of that name, if the table holds one (name is a unique index)
NameTaken(rows, name) == \E i \in DomainIDs : rows[i].id = i /\ rows[i].name = name

\* c.ShouldBindJSON(&domain): every key of the body overwrites its field of the
\* record, the other fields stay
BindJSON(d, body) == [f \in DOMAIN d |-> IF f \in DOMAIN body THEN body[f] ELSE d[f]]

\* the bodies of PUT /domains/:id that are explored
UpdateBodies ==
    { [tags |-> "parked", active |-> FALSE],
      [days |-> 7] }

\* the bodies of POST /domains that are explored, for the name of row id
CreateBodies(id) ==
    { [name |-> DomainName(id)],
      [name |-> DomainName(id), registrar |-> "typed", days |-> 7] }

\* ImportDomains, part_000 lines 185-199: the table after the names were gone
\* through; a name the table holds is skipped (db.Create fails)
RECURSIVE ImportRows(_, _)
ImportRows(rows, names) ==
    IF names = <<>> THEN rows
    ELSE IF NameTaken(rows, DomainName(Head(names))) \/ NextID(rows) \notin DomainIDs
         THEN ImportRows(rows, Tail(names))
         ELSE ImportRows([rows EXCEPT ![NextID(rows)] =
                             [NewDomain(NextID(rows)) EXCEPT !.name = DomainName(Head(names))]],
                         Tail(names))

\* ------------------------------------------------------------ Monitor Engine

\* int(x) of a float: the fraction is dropped, towards zero
TruncDiv(a, b) == IF a >= 0 THEN a \div b ELSE -((-a) \div b)

\* int(time.Until(expiry).Hours() / 24) at time t
DaysUntil(expiry, t) == TruncDiv(expiry - t, HoursPerDay)

\* variant: the days are computed without looking at IsZero
UpdateDomainInfoAlways(d, info, t) ==
    [d EXCEPT !.registrar = info.registrar,
              !.expiry = info.expiry,
              !.created = info.created,
              !.updated = info.updated,
              !.status = info.status,
              !.lastChecked = t,
              !.days = DaysUntil(info.expiry, t)]

\* variant: without expiry the days are cleared
UpdateDomainInfoResetsDays(d, info, t) ==
    [d EXCEPT !.registrar = info.registrar,
              !.expiry = info.expiry,
              !.created = info.created,
              !.updated = info.updated,
              !.status = info.status,
              !.lastChecked = t,
              !.days = IF info.expiry # ZeroTime THEN DaysUntil(info.expiry, t) ELSE 0]

\* CheckDomain, lines 509-520: the record after a successful lookup at time t
UpdateDomainInfo(d, info, t) ==
    [d EXCEPT !.registrar = info.registrar,
              !.expiry = info.expiry,
              !.created = info.created,
              !.updated = info.updated,
              !.status = info.status,
              !.lastChecked = t,
              !.days = IF info.expiry # ZeroTime THEN DaysUntil(info.expiry, t) ELSE @]

\* variant: last-checked is stamped before the lookup's error is looked at
LookupFailedStamps(d, err, t) ==
    [domain |-> [d EXCEPT !.lastChecked = t], err |-> Wrap("WHOIS query failed", err)]

\* variant: the cause is formatted into the message and not kept
LookupFailedNoCause(d, err, t) == [domain |-> d, err |-> <<"WHOIS query failed">>]

\* CheckDomain, lines 505-507: the record and the error after a failed lookup
LookupFailed(d, err, t) == [domain |-> d, err |-> Wrap("WHOIS query failed", err)]

\* variant: the failed save is logged and not returned
SaveFailedSwallowed(err) == Nil

\* CheckDomain, lines 524-526: the error after a failed save
SaveFailed(err) == Wrap("failed to save domain", err)

\* lines 544-545: the index of the first threshold from position i on that
\* days equals, or 0
RECURSIVE FirstMatchFrom(_, _, _)
FirstMatchFrom(i, thresholds, days) ==
    IF i > Len(thresholds) THEN 0
    ELSE IF days = thresholds[i] THEN i
    ELSE FirstMatchFrom(i + 1, thresholds, days)

\* history: a save that changes the stored days_remaining of a row starts a new
\* count of the dispatches made for that row at its value
FiredAfterSave(f, old, new) == IF new.days # old.days THEN [f EXCEPT ![new.id] = 0] ELSE f

\* variant: any failure makes the aggregate fail
VerdictStrict(successCount, lastErr) == lastErr

\* SendNotification, lines 82-87: the aggregate verdict
Verdict(successCount, lastErr) ==
    IF successCount > 0 /\ lastErr # Nil THEN Nil ELSE lastErr

\* variant: the loop over the senders ends at the first failure
NextSenderStopsAtFailure(i, err, n) == IF err # Nil THEN n + 1 ELSE i + 1

\* lines 66, 73: the loop goes on with the next sender, whatever this one returned
NextSender(i, err, n) == i + 1

\* variant: the first error is kept
LastErrKeepsFirst(prev, err) == IF prev # Nil THEN prev ELSE IF err # Nil THEN err ELSE prev

\* lines 68-70: lastErr after a sender returned err
LastErr(prev, err) == IF err # Nil THEN err ELSE prev

\* variant: every attempt is recorded as a success
NotificationStatusAlwaysSuccess(err) == "success"

\* lines 72, 77: the status recordNotification is called with
NotificationStatus(err) == IF err # Nil THEN "failed" ELSE "success"

\* variant: a row is not inserted when the table holds one for that domain and
\* channel
CreateOncePerDomain(rows, row) ==
    IF \E k \in 1..Len(rows) : rows[k].domainID = row.domainID /\ rows[k].type = row.type
    THEN rows ELSE Append(rows, row)

\* variant: the insert overwrites the newest row
CreateOverwritesLast(rows, row) ==
    IF rows = <<>> THEN <<row>> ELSE [rows EXCEPT ![Len(rows)] = row]

\* line 102: db.Create inserts the row after those the table holds
Create(rows, row) == Append(rows, row)

\* line 564: the days TriggerNotification passes to SendNotification
TriggerDays(d) == d.days

\* variant: the test dispatch answers success whatever SendNotification returned
TriggerResultSwallowed(snRet) == Nil

\* line 564: TriggerNotification returns what SendNotification returned
TriggerResult(snRet) == snRet

\* the error a channel's Send returns when its delivery fails
SendError(channel) == <<"send failed", channel>>

\* strings.Contains(err.Error(), msg): the text of an error is the messages of
\* its chain, one after the other
Contains(err, msg) == \E i \in 1..Len(err) : err[i] = msg

\* variant: every error of smtp.SendMail is returned
EmailSendStrict(smtpErr) ==
    IF smtpErr # Nil THEN Wrap("failed to send email", smtpErr) ELSE Nil

\* EmailNotifier.Send, lines 164-177: what Send returns when smtp.SendMail
\* returned smtpErr
EmailSend(smtpErr) ==
    IF smtpErr # Nil /\ ~Contains(smtpErr, "short response")
    THEN Wrap("failed to send email", smtpErr)
    ELSE Nil

\* what smtp.SendMail is explored to return: nil, the benign error alone and
\* behind another message, and errors without it
SMTPResults ==
    { Nil,
      <<"short response">>,
      <<"read tcp", "short response">>,
      <<"short write">>,
      <<"dial tcp", "connection refused">> }

\* what a channel's Send may do: raw is what its outbound call returned and err
\* what Send returns; here the call went through, or failed
SendResults ==
    [channel \in { ChannelOrder[i] : i \in 1..Len(ChannelOrder) } |->
        { [raw |-> Nil, err |-> Nil],
          [raw |-> <<"delivery failed">>, err |-> SendError(channel)] }]

\* ------------------------------------------------------------------- state

VARIABLES
    now,            \* the clock, in hours
    alertDays,      \* MonitorService.alertDays
    notifiers,      \* NotifyService.notifiers
    store,          \* the domains table, by primary key
    notifications,  \* the notifications table, in insertion order
    pc,             \* where each goroutine stands
    op,             \* the operation each goroutine runs
    loaded,         \* CheckAllDomains: the rows it loaded
    idx,            \* CheckAllDomains: the position of its loop
    domain,         \* CheckDomain / TriggerNotification: the record in memory
    cdErr,          \* CheckDomain: the error it returns
    scan,           \* CheckAndNotify: the position of its loop over the thresholds
    snd,            \* SendNotification: its arguments and locals
    ret,            \* the result of the operation
    chk,            \* history of the CheckDomain call in progress
    log,            \* history of the CheckDomain calls of the batch in progress
    lookups,        \* history: the lookups made or committed to so far
    fired,          \* history: CheckAndNotify's dispatches for each row since its
                    \* stored days_remaining last changed
    ops             \* history: the operations counted so far

vars == <<now, alertDays, notifiers, store, notifications, pc, op, loaded, idx,
          domain, cdErr, scan, snd, ret, chk, log, lookups, fired, ops>>

\* base and attempted are history: the rows the table held at the call, and
\* what each turn of the loop did
NoSend ==
    [days |-> 0, i |-> 0, lastErr |-> Nil, successCount |-> 0, caller |-> "none",
     base |-> 0, attempted |-> <<>>]

NoQuery == [info |-> NoInfo, err |-> Pending]

\* no answer yet
NoResp == Envelope(FALSE, 0, 0, "<none>")

\* what a CheckDomain call has done so far
NoChk ==
    [before |-> NoDomain, t |-> ZeroTime, resp |-> NoResp, q |-> NoQuery, updated |-> NoDomain,
     queries |-> 0, saves |-> 0, saved |-> FALSE, evals |-> 0, sent |-> <<>>,
     sentAfterSave |-> TRUE, attempts |-> 0, records |-> 0, snRet |-> Pending]

NewChk(d) == [NoChk EXCEPT !.before = d]

Init ==
    /\ now = StartTime
    /\ alertDays \in AlertDaysChoices
    /\ notifiers \in { NewNotifyService(c) : c \in NotificationConfigs }
    /\ store = [i \in DomainIDs |-> NewDomain(i)]
    /\ notifications = <<>>
    /\ pc = [p \in Procs |-> "idle"]
    /\ op = [p \in Procs |-> "none"]
    /\ loaded = [p \in Procs |-> <<>>]
    /\ idx = [p \in Procs |-> 0]
    /\ domain = [p \in Procs |-> NoDomain]
    /\ cdErr = [p \in Procs |-> Pending]
    /\ scan = [p \in Procs |-> 0]
    /\ snd = [p \in Procs |-> NoSend]
    /\ ret = [p \in Procs |-> Pending]
    /\ chk = [p \in Procs |-> NoChk]
    /\ log = [p \in Procs |-> <<>>]
    /\ lookups = 0
    /\ fired = [i \in DomainIDs |-> 0]
    /\ ops = 0

\* the clock advances; it is read by CheckDomain alone (lines 515, 519), so
\* only the advances before such a read are explored
Tick ==
    /\ now + TickHours <= MaxTime
    /\ \E p \in Procs : pc[p] = "query"
    /\ now' = now + TickHours
    /\ UNCHANGED <<ops, alertDays, notifiers, store, notifications, pc, op, loaded, idx,
                   domain, cdErr, snd, ret, chk, log, lookups, scan, fired>>

\* ---- CheckAllDomains

\* lines 482-489: a call of CheckAllDomains loads the active rows, or fails to
LoadBatch(p) ==
    /\ pc[p] = "idle"
    /\ op' = [op EXCEPT ![p] = "CheckAllDomains"]
    /\ \E dbOk \in BOOLEAN :
          IF dbOk
          THEN /\ lookups + Len(ActiveDomains(store)) <= MaxLookups
               /\ lookups' = lookups + Len(ActiveDomains(store))
               /\ loaded' = [loaded EXCEPT ![p] = ActiveDomains(store)]
               /\ idx' = [idx EXCEPT ![p] = 1]
               /\ pc' = [pc EXCEPT ![p] = "loop"]
               /\ ret' = ret
          ELSE /\ ret' = [ret EXCEPT ![p] = Wrap("failed to fetch domains", DBError)]
               /\ pc' = [pc EXCEPT ![p] = "done"]
               /\ UNCHANGED <<loaded, idx, lookups>>
    /\ UNCHANGED <<now, fired, alertDays, notifiers, store, notifications, domain, cdErr,
                   snd, chk, log, scan>>

\* the scheduler's job calls CheckAllDomains
CheckAllDomains(p) == p = "cron" /\ LoadBatch(p)

\* variant: the loop returns the last error it met
BatchLoopLastErr(p) ==
    /\ pc[p] = "loop"
    /\ IF idx[p] <= Len(loaded[p])
       THEN /\ domain' = [domain EXCEPT ![p] = loaded[p][idx[p]]]
            /\ chk' = [chk EXCEPT ![p] = NewChk(loaded[p][idx[p]])]
            /\ cdErr' = [cdErr EXCEPT ![p] = Pending]
            /\ pc' = [pc EXCEPT ![p] = "query"]
            /\ ret' = ret
       ELSE /\ ret' = [ret EXCEPT ![p] = IF cdErr[p] = Pending THEN Nil ELSE cdErr[p]]
            /\ pc' = [pc EXCEPT ![p] = "done"]
            /\ UNCHANGED <<domain, chk, cdErr>>
    /\ UNCHANGED <<ops, now, fired, alertDays, notifiers, store, notifications, op, loaded, idx,
                   snd, log, lookups, scan>>

\* lines 491-492, 498: the loop takes the next row and calls CheckDomain, or returns nil
BatchLoop(p) ==
    /\ pc[p] = "loop"
    /\ IF idx[p] <= Len(loaded[p])
       THEN /\ domain' = [domain EXCEPT ![p] = loaded[p][idx[p]]]
            /\ chk' = [chk EXCEPT ![p] = NewChk(loaded[p][idx[p]])]
            /\ cdErr' = [cdErr EXCEPT ![p] = Pending]
            /\ pc' = [pc EXCEPT ![p] = "query"]
            /\ ret' = ret
       ELSE /\ ret' = [ret EXCEPT ![p] = Nil]
            /\ pc' = [pc EXCEPT ![p] = "done"]
            /\ UNCHANGED <<domain, chk, cdErr>>
    /\ UNCHANGED <<ops, now, fired, alertDays, notifiers, store, notifications, op, loaded, idx,
                   snd, log, lookups, scan>>

\* variant: the loop returns at the first error
BatchContinueAborts(p) ==
    /\ pc[p] = "cdret"
    /\ op[p] = "CheckAllDomains"
    /\ log' = [log EXCEPT ![p] = Append(@, [id |-> domain[p].id, err |-> cdErr[p],
                                             chk |-> chk[p], mem |-> domain[p]])]
    /\ IF cdErr[p] # Nil
       THEN /\ ret' = [ret EXCEPT ![p] = cdErr[p]]
            /\ pc' = [pc EXCEPT ![p] = "done"]
            /\ idx' = idx
       ELSE /\ idx' = [idx EXCEPT ![p] = @ + 1]
            /\ pc' = [pc EXCEPT ![p] = "loop"]
            /\ ret' = ret
    /\ UNCHANGED <<ops, now, fired, alertDays, notifiers, store, notifications, op, loaded,
                   domain, cdErr, snd, chk, lookups, scan>>

\* lines 492-495: CheckDomain returned; an error is logged and the loop goes on
BatchContinue(p) ==
    /\ pc[p] = "cdret"
    /\ op[p] = "CheckAllDomains"
    /\ log' = [log EXCEPT ![p] = Append(@, [id |-> domain[p].id, err |-> cdErr[p],
                                             chk |-> chk[p], mem |-> domain[p]])]
    /\ idx' = [idx EXCEPT ![p] = @ + 1]
    /\ pc' = [pc EXCEPT ![p] = "loop"]
    /\ UNCHANGED <<ops, now, fired, alertDays, notifiers, store, notifications, op, loaded,
                   domain, cdErr, snd, ret, chk, lookups, scan>>

\* ---- RefreshDomain

\* part_000 lines 208-223: the handler loads the row and calls CheckDomain
RefreshDomain(p) ==
    /\ p = "http"
    /\ pc[p] = "idle"
    /\ op' = [op EXCEPT ![p] = "RefreshDomain"]
    /\ \E id \in 0..NumDomains :
          IF Found(store, id)
          THEN /\ lookups < MaxLookups
               /\ lookups' = lookups + 1
               /\ domain' = [domain EXCEPT ![p] = store[id]]
               /\ chk' = [chk EXCEPT ![p] = NewChk(store[id])]
               /\ pc' = [pc EXCEPT ![p] = "query"]
               /\ ret' = ret
          ELSE /\ ret' = [ret EXCEPT ![p] = <<"Domain not found">>]
               /\ pc' = [pc EXCEPT ![p] = "done"]
               /\ UNCHANGED <<domain, chk, lookups>>
    /\ UNCHANGED <<now, fired, alertDays, notifiers, store, notifications, loaded, idx,
                   cdErr, snd, log, scan>>

\* part_000 lines 223-228: CheckDomain's error is the handler's answer
RefreshReturn(p) ==
    /\ pc[p] = "cdret"
    /\ op[p] = "RefreshDomain"
    /\ ret' = [ret EXCEPT ![p] = cdErr[p]]
    /\ pc' = [pc EXCEPT ![p] = "done"]
    /\ UNCHANGED <<ops, now, fired, alertDays, notifiers, store, notifications, op, loaded, idx,
                   domain, cdErr, snd, chk, log, lookups, scan>>

\* ---- CheckDomain

\* variant: eligibility is evaluated before the record is saved
CheckDomainNextNotifyFirst(step, ok) ==
    CASE step = "query" -> IF ok THEN "notify" ELSE "cdret"
      [] step = "notify" -> "save"
      [] OTHER -> "cdret"

\* variant: a step that failed is made again
CheckDomainNextRetries(step, ok) ==
    CASE step = "query" -> IF ok THEN "save" ELSE "query"
      [] step = "save" -> IF ok THEN "notify" ELSE "save"
      [] OTHER -> "cdret"

\* the order of CheckDomain's steps: what follows `step` when it succeeded or failed
CheckDomainNext(step, ok) ==
    CASE step = "query" -> IF ok THEN "save" ELSE "cdret"
      [] step = "save" -> IF ok THEN "notify" ELSE "cdret"
      [] OTHER -> "cdret"

\* lines 504-520: one lookup, answered by one of `responses`; on success the
\* record in memory takes the facts
QueryWith(p, responses) ==
    /\ pc[p] = "query"
    /\ \E resp \in responses :
          LET q == QueryDomain(domain[p].name, resp)
              failed == LookupFailed(domain[p], q.err, now)
              d == IF q.err # Nil THEN failed.domain
                   ELSE UpdateDomainInfo(domain[p], q.info, now)
          IN /\ domain' = [domain EXCEPT ![p] = d]
             /\ cdErr' = [cdErr EXCEPT ![p] = IF q.err # Nil THEN failed.err ELSE @]
             /\ pc' = [pc EXCEPT ![p] = CheckDomainNext("query", q.err = Nil)]
             /\ chk' = [chk EXCEPT ![p] = [@ EXCEPT !.queries = @ + 1, !.t = now,
                                                    !.resp = resp, !.q = q,
                                                    !.updated = d]]
    /\ UNCHANGED <<ops, now, fired, alertDays, notifiers, store, notifications, op, loaded, idx,
                   snd, ret, log, lookups, scan>>

\* the lookup of a check while the monitor runs
QueryStep(p) == QueryWith(p, MonitorResponses)

\* lines 523-526: db.Save writes every column of the record in memory, or fails
SaveStep(p) ==
    /\ pc[p] = "save"
    /\ \E dbOk \in BOOLEAN :
          /\ store' = IF dbOk THEN [store EXCEPT ![domain[p].id] = domain[p]] ELSE store
          /\ pc' = [pc EXCEPT ![p] = CheckDomainNext("save", dbOk)]
          /\ cdErr' = [cdErr EXCEPT ![p] =
                          IF ~dbOk THEN SaveFailed(DBError)
                          ELSE IF CheckDomainNext("save", dbOk) = "cdret" THEN Nil ELSE @]
          /\ chk' = [chk EXCEPT ![p] = [@ EXCEPT !.saves = @ + 1, !.saved = dbOk]]
          /\ fired' = IF dbOk THEN FiredAfterSave(fired, store[domain[p].id], domain[p])
                       ELSE fired
    /\ UNCHANGED <<ops, now, alertDays, notifiers, notifications, op, loaded, idx, domain,
                   snd, ret, log, lookups, scan>>

\* variant: CheckDomain returns what SendNotification answered
CheckDomainResultPropagates(snRet) == IF snRet = Pending THEN Nil ELSE snRet

\* lines 531-533: CheckAndNotify returns nothing; whatever SendNotification
\* answered (Pending: it was not called), CheckDomain returns nil
CheckDomainResult(snRet) == Nil

\* lines 539-545: the first threshold at or after `pos` that days_remaining
\* equals, or 0; nothing matches when there is no notify service
CheckAndNotifyMatch(available, pos, thresholds, days) ==
    IF ~available THEN 0 ELSE FirstMatchFrom(pos, thresholds, days)

\* variant: the loop goes on with the next threshold after a dispatch
ScanAfterDispatchContinues(m, thresholds) == m + 1

\* line 550: break; where the loop stands after the dispatch for threshold m
ScanAfterDispatch(m, thresholds) == Len(thresholds) + 1

\* lines 531, 537-553: CheckAndNotify's loop over the thresholds: it calls
\* SendNotification for a threshold the record's days_remaining equals, or, with
\* no threshold left to try, returns to CheckDomain
CheckAndNotify(p) ==
    /\ pc[p] = "notify"
    /\ LET pos == IF scan[p] = 0 THEN 1 ELSE scan[p]
           m == CheckAndNotifyMatch(NotifyServiceAvailable, pos, alertDays, domain[p].days)
           nxt == CheckDomainNext("notify", TRUE)
           entered == IF scan[p] = 0 THEN 1 ELSE 0
       IN IF m # 0
          THEN /\ snd' = [snd EXCEPT ![p] = [NoSend EXCEPT !.days = alertDays[m], !.i = 1,
                                                           !.caller = "CheckAndNotify",
                                                           !.base = Len(notifications)]]
               /\ scan' = [scan EXCEPT ![p] = ScanAfterDispatch(m, alertDays)]
               /\ pc' = [pc EXCEPT ![p] = "send"]
               /\ chk' = [chk EXCEPT ![p] = [@ EXCEPT !.evals = @ + entered,
                                                      !.sent = Append(@, alertDays[m]),
                                                      !.sentAfterSave = @ /\ chk[p].saved]]
               /\ fired' = [fired EXCEPT ![domain[p].id] = @ + 1]
               /\ cdErr' = cdErr
          ELSE /\ pc' = [pc EXCEPT ![p] = nxt]
               /\ scan' = [scan EXCEPT ![p] = 0]
               /\ cdErr' = [cdErr EXCEPT ![p] =
                               IF nxt = "cdret" THEN CheckDomainResult(chk[p].snRet) ELSE @]
               /\ chk' = [chk EXCEPT ![p] = [@ EXCEPT !.evals = @ + entered]]
               /\ UNCHANGED <<snd, fired>>
    /\ UNCHANGED <<ops, now, alertDays, notifiers, store, notifications, op, loaded, idx,
                   domain, ret, log, lookups>>

\* ---- SendNotification

\* lines 91-102: the row recordNotification inserts
NotificationRecord(d, channel, status) ==
    [domainID |-> d.id, type |-> channel, days |-> d.days, status |-> status]

\* the outcomes of recordNotification's db.Create that are explored
CreateOutcomes == {TRUE}

\* lines 66-80: one turn of the loop: the channel's Send, then recordNotification
\* (whose db.Create may fail, unnoticed); `creates` are the outcomes of db.Create
\* that are explored, `cap` the rows the table may hold and results[channel] what
\* the channel's Send may do
SendAttempt(p, creates, cap, results) ==
    /\ pc[p] = "send"
    /\ snd[p].i <= Len(notifiers)
    /\ \E res \in results[notifiers[snd[p].i]], dbOk \in creates :
          LET channel == notifiers[snd[p].i]
              err == res.err
              row == NotificationRecord(domain[p], channel, NotificationStatus(err))
          IN /\ dbOk => Len(notifications) < cap
             /\ notifications' = IF dbOk THEN Create(notifications, row) ELSE notifications
             /\ snd' = [snd EXCEPT ![p] =
                           [@ EXCEPT !.i = NextSender(@, err, Len(notifiers)),
                                     !.lastErr = LastErr(@, err),
                                     !.successCount = IF err = Nil THEN @ + 1 ELSE @,
                                     !.attempted = Append(@, [channel |-> channel,
                                                              raw |-> res.raw,
                                                              err |-> err,
                                                              stored |-> dbOk])]]
             /\ chk' = [chk EXCEPT ![p] =
                           [@ EXCEPT !.attempts = @ + 1,
                                     !.records = IF dbOk THEN @ + 1 ELSE @]]
    /\ UNCHANGED <<ops, now, fired, alertDays, notifiers, store, pc, op, loaded, idx, domain,
                   cdErr, ret, log, lookups, scan>>

\* a turn of the loop while the monitor runs: the inserts succeed
SendOne(p) == SendAttempt(p, CreateOutcomes, MaxNotifications, SendResults)

\* lines 82-87 and 547-550: the loop over the senders is over; CheckAndNotify
\* logs the verdict and leaves its own loop
SendReturn(p) ==
    /\ pc[p] = "send"
    /\ snd[p].i > Len(notifiers)
    /\ snd[p].caller = "CheckAndNotify"
    /\ pc' = [pc EXCEPT ![p] = "notify"]
    /\ chk' = [chk EXCEPT ![p] =
                  [@ EXCEPT !.snRet = Verdict(snd[p].successCount, snd[p].lastErr)]]
    /\ snd' = [snd EXCEPT ![p] = NoSend]
    /\ UNCHANGED <<ops, now, fired, alertDays, notifiers, store, notifications, op, loaded, idx,
                   domain, cdErr, scan, ret, log, lookups>>

\* ---- CreateDomain, ImportDomains, UpdateDomain, DeleteDomain

\* part_000 lines 78-100: the body is bound into a fresh record, the record is
\* made active and inserted, and CheckDomain is started on it in the background
\* while the handler answers; the process goes on as that background check
CreateDomain(p) ==
    /\ p = "http"
    /\ pc[p] = "idle"
    /\ op' = [op EXCEPT ![p] = "CreateDomain"]
    /\ \E id \in DomainIDs, valid \in BOOLEAN, dbOk \in BOOLEAN :
        \E body \in CreateBodies(id) :
          LET row == [BindJSON(NoDomain, body) EXCEPT !.active = TRUE, !.id = NextID(store)]
          IN IF ~valid
             THEN /\ ret' = [ret EXCEPT ![p] = <<"bad request">>]
                  /\ pc' = [pc EXCEPT ![p] = "done"]
                  /\ UNCHANGED <<store, domain, chk, lookups>>
             ELSE IF ~dbOk \/ NameTaken(store, body.name)
             THEN /\ ret' = [ret EXCEPT ![p] = DBError]
                  /\ pc' = [pc EXCEPT ![p] = "done"]
                  /\ UNCHANGED <<store, domain, chk, lookups>>
             ELSE /\ id = NextID(store)
                  /\ lookups < MaxLookups
                  /\ lookups' = lookups + 1
                  /\ store' = [store EXCEPT ![id] = row]
                  /\ ret' = [ret EXCEPT ![p] = Nil]
                  /\ domain' = [domain EXCEPT ![p] = row]
                  /\ chk' = [chk EXCEPT ![p] = NewChk(row)]
                  /\ pc' = [pc EXCEPT ![p] = "query"]
    /\ UNCHANGED <<now, fired, alertDays, notifiers, notifications, loaded, idx,
                   cdErr, snd, log, scan>>

\* the lists of names POST /domains/import is explored with: the name of the
\* next row alone, after a name the table holds, twice, and before the name of
\* the row after it
ImportLists(rows) ==
    LET n == NextID(rows)
    IN { l \in { <<n>>, <<1, n>>, <<n, n>>, <<n, n + 1>> } :
            \A k \in 1..Len(l) : l[k] \in DomainIDs }

\* part_000 lines 172-204: the rows are inserted one after the other and a
\* CheckDomain is started in the background for each inserted row while the
\* handler answers; the process goes on as those checks, one after the other
ImportDomains(p) ==
    /\ p = "http"
    /\ pc[p] = "idle"
    /\ op' = [op EXCEPT ![p] = "ImportDomains"]
    /\ \E valid \in BOOLEAN :
          IF ~valid
          THEN /\ ret' = [ret EXCEPT ![p] = <<"bad request">>]
               /\ pc' = [pc EXCEPT ![p] = "done"]
               /\ UNCHANGED <<store, loaded, idx, lookups>>
          ELSE \E names \in ImportLists(store) :
                 LET rows == ImportRows(store, names)
                     inserted == SelectSeq([i \in DomainIDs |-> rows[i]],
                                           LAMBDA d : d.id # 0 /\ store[d.id].id = 0)
                 IN /\ lookups + Len(inserted) <= MaxLookups
                    /\ lookups' = lookups + Len(inserted)
                    /\ store' = rows
                    /\ loaded' = [loaded EXCEPT ![p] = inserted]
                    /\ idx' = [idx EXCEPT ![p] = 1]
                    /\ ret' = [ret EXCEPT ![p] = Nil]
                    /\ pc' = [pc EXCEPT ![p] = "loop"]
    /\ UNCHANGED <<now, fired, alertDays, notifiers, notifications, domain, cdErr,
                   snd, chk, log, scan>>

\* part_000 lines 98, 198: a background CheckDomain returned; its result is dropped
BackgroundReturn(p) ==
    /\ pc[p] = "cdret"
    /\ op[p] \in {"CreateDomain", "ImportDomains"}
    /\ IF op[p] = "ImportDomains"
       THEN /\ idx' = [idx EXCEPT ![p] = @ + 1]
            /\ pc' = [pc EXCEPT ![p] = "loop"]
       ELSE /\ idx' = idx
            /\ pc' = [pc EXCEPT ![p] = "done"]
    /\ UNCHANGED <<ops, now, fired, alertDays, notifiers, store, notifications, op, loaded,
                   domain, cdErr, snd, ret, chk, log, lookups, scan>>

\* part_000 lines 123-150: the row is loaded, the body is bound over it and the
\* whole record is saved
UpdateDomain(p) ==
    /\ p = "http"
    /\ pc[p] = "idle"
    /\ op' = [op EXCEPT ![p] = "UpdateDomain"]
    /\ pc' = [pc EXCEPT ![p] = "done"]
    /\ \E id \in 0..NumDomains, body \in UpdateBodies, valid \in BOOLEAN, dbOk \in BOOLEAN :
          IF ~Found(store, id)
          THEN /\ ret' = [ret EXCEPT ![p] = <<"Domain not found">>]
               /\ UNCHANGED <<store, fired>>
          ELSE IF ~valid
          THEN /\ ret' = [ret EXCEPT ![p] = <<"bad request">>]
               /\ UNCHANGED <<store, fired>>
          ELSE IF ~dbOk
          THEN /\ ret' = [ret EXCEPT ![p] = DBError]
               /\ UNCHANGED <<store, fired>>
          ELSE /\ store' = [store EXCEPT ![id] = BindJSON(store[id], body)]
               /\ fired' = FiredAfterSave(fired, store[id], BindJSON(store[id], body))
               /\ ret' = [ret EXCEPT ![p] = Nil]
    /\ UNCHANGED <<now, alertDays, notifiers, notifications, loaded, idx, domain,
                   cdErr, snd, chk, log, lookups, scan>>

\* part_000 lines 154-168: the row of that key is deleted, if there is one
DeleteDomain(p) ==
    /\ p = "http"
    /\ pc[p] = "idle"
    /\ op' = [op EXCEPT ![p] = "DeleteDomain"]
    /\ pc' = [pc EXCEPT ![p] = "done"]
    /\ \E id \in DomainIDs, dbOk \in BOOLEAN :
          IF ~dbOk
          THEN /\ ret' = [ret EXCEPT ![p] = DBError]
               /\ store' = store
          ELSE /\ ret' = [ret EXCEPT ![p] = Nil]
               /\ store' = IF Found(store, id) THEN [store EXCEPT ![id] = DeletedDomain]
                            ELSE store
    /\ UNCHANGED <<now, fired, alertDays, notifiers, notifications, loaded, idx, domain,
                   cdErr, snd, chk, log, lookups, scan>>

\* ---- TestNotification / TriggerNotification

\* part_000 lines 319-335 and notify.go lines 556-564: the handler loads the row
\* and TriggerNotification calls SendNotification with the row's days_remaining;
\* `cap` is the rows the table may hold: a dispatch that could exceed it is not
\* explored
TestNotification(p, cap) ==
    /\ p = "http"
    /\ pc[p] = "idle"
    /\ op' = [op EXCEPT ![p] = "TestNotification"]
    /\ \E id \in 0..NumDomains :
          IF Found(store, id)
          THEN /\ Len(notifications) + Len(notifiers) <= cap
               /\ domain' = [domain EXCEPT ![p] = store[id]]
               /\ IF NotifyServiceAvailable
                  THEN /\ snd' = [snd EXCEPT ![p] =
                                     [NoSend EXCEPT !.days = TriggerDays(store[id]),
                                                    !.i = 1,
                                                    !.caller = "TriggerNotification",
                                                    !.base = Len(notifications)]]
                       /\ chk' = [chk EXCEPT ![p] =
                                     [NewChk(store[id]) EXCEPT
                                         !.sent = <<TriggerDays(store[id])>>]]
                       /\ pc' = [pc EXCEPT ![p] = "send"]
                       /\ ret' = ret
                  ELSE /\ ret' = [ret EXCEPT ![p] = <<"notification service not available">>]
                       /\ chk' = [chk EXCEPT ![p] = NewChk(store[id])]
                       /\ pc' = [pc EXCEPT ![p] = "done"]
                       /\ snd' = snd
          ELSE /\ ret' = [ret EXCEPT ![p] = <<"Domain not found">>]
               /\ pc' = [pc EXCEPT ![p] = "done"]
               /\ UNCHANGED <<domain, chk, snd>>
    /\ UNCHANGED <<now, fired, alertDays, notifiers, store, notifications, loaded, idx,
                   cdErr, log, lookups, scan>>

\* notify.go lines 82-87, 564 and part_000 lines 335-340: the loop over the
\* senders is over; SendNotification's verdict is TriggerNotification's result
\* and the handler's answer
TriggerReturn(p) ==
    /\ pc[p] = "send"
    /\ snd[p].i > Len(notifiers)
    /\ snd[p].caller = "TriggerNotification"
    /\ ret' = [ret EXCEPT ![p] = TriggerResult(Verdict(snd[p].successCount, snd[p].lastErr))]
    /\ chk' = [chk EXCEPT ![p] =
                  [@ EXCEPT !.snRet = Verdict(snd[p].successCount, snd[p].lastErr)]]
    /\ pc' = [pc EXCEPT ![p] = "done"]
    /\ UNCHANGED <<ops, now, fired, alertDays, notifiers, store, notifications, op, loaded, idx,
                   domain, cdErr, scan, snd, log, lookups>>

\* ---- the operation is over; the goroutine ends
Finish(p) ==
    /\ pc[p] = "done"
    /\ pc' = [pc EXCEPT ![p] = "idle"]
    /\ op' = [op EXCEPT ![p] = "none"]
    /\ loaded' = [loaded EXCEPT ![p] = <<>>]
    /\ idx' = [idx EXCEPT ![p] = 0]
    /\ domain' = [domain EXCEPT ![p] = NoDomain]
    /\ cdErr' = [cdErr EXCEPT ![p] = Pending]
    /\ scan' = [scan EXCEPT ![p] = 0]
    /\ snd' = [snd EXCEPT ![p] = NoSend]
    /\ ret' = [ret EXCEPT ![p] = Pending]
    /\ chk' = [chk EXCEPT ![p] = NoChk]
    /\ log' = [log EXCEPT ![p] = <<>>]
    /\ UNCHANGED <<ops, now, fired, alertDays, notifiers, store, notifications, lookups>>

\* ------------------------------------------------------------ specification

AllIdle == \A q \in Procs : pc[q] = "idle"

\* the operations run one at a time
Next ==
    \/ Tick
    \/ \E p \in Procs :
          \/ AllIdle /\ CheckAllDomains(p) /\ UNCHANGED ops
          \/ AllIdle /\ RefreshDomain(p) /\ UNCHANGED ops
          \/ BatchLoop(p)
          \/ BatchContinue(p)
          \/ RefreshReturn(p)
          \/ QueryStep(p)
          \/ SaveStep(p)
          \/ CheckAndNotify(p)
          \/ SendOne(p)
          \/ SendReturn(p)
          \/ Finish(p)

Spec == Init /\ [][Next]_vars

\* ------------------------------- specification with endpoints that never answer

\* the channels whose Send makes its call through a client with a Timeout
\* (notify.go lines 246-248); mail goes through smtp.SendMail (line 164) and the
\* two webhooks through http.Post (lines 205, 348), which set no deadline
TimedChannels == {"*services.TelegramNotifier"}

\* a Send whose call has no deadline does not return when the endpoint never
\* answers
SendBlocks(p) ==
    /\ pc[p] = "send"
    /\ snd[p].i <= Len(notifiers)
    /\ notifiers[snd[p].i] \notin TimedChannels
    /\ pc' = [pc EXCEPT ![p] = "blocked"]
    /\ UNCHANGED <<ops, now, fired, alertDays, notifiers, store, notifications, op, loaded,
                   idx, domain, cdErr, scan, snd, ret, chk, log, lookups>>

\* the rows the dispatches of every check can append
BlockingRows == MaxLookups * Len(ChannelOrder)

\* a turn of the loop whose Send returns; the table takes every row
SendReturns(p) == SendAttempt(p, CreateOutcomes, BlockingRows, SendResults)

\* the steps of a goroutine that is in an operation
Running(p) ==
    \/ BatchLoop(p)
    \/ BatchContinue(p)
    \/ RefreshReturn(p)
    \/ QueryStep(p)
    \/ SaveStep(p)
    \/ CheckAndNotify(p)
    \/ SendReturns(p)
    \/ SendReturn(p)
    \/ Finish(p)

BlockingNext ==
    \/ Tick
    \/ \E p \in Procs :
          \/ AllIdle /\ CheckAllDomains(p) /\ UNCHANGED ops
          \/ AllIdle /\ RefreshDomain(p) /\ UNCHANGED ops
          \/ Running(p)
          \/ SendBlocks(p)

\* a goroutine that can take a step takes one: the Go scheduler starves none
BlockingSpec == Init /\ [][BlockingNext]_vars /\ \A p \in Procs : WF_vars(Running(p))

\* ------------------------------------------- specification of the dispatcher

\* the answers of the endpoint that carry a payload
OkResponses == { r \in MonitorResponses : QueryDomain(<<>>, r).err = Nil }

\* the record a successful check of d at time t leaves
Checked(d, resp, t) == UpdateDomainInfo(d, QueryDomain(d.name, resp).info, t)

\* the rows the table may hold before test dispatches stop being explored: one
\* dispatch over every channel, or several over fewer
DispatchRows == Len(ChannelOrder)

\* any of the sixteen configurations; the first row was checked once, the others
\* are as inserted
DispatchInit ==
    /\ now = StartTime
    /\ alertDays \in AlertDaysChoices
    /\ notifiers \in { NewNotifyService(c) : c \in AllNotificationConfigs }
    /\ \E r \in OkResponses :
          store = [i \in DomainIDs |->
                      IF i = 1 THEN Checked(NewDomain(i), r, StartTime) ELSE NewDomain(i)]
    /\ notifications = <<>>
    /\ pc = [p \in Procs |-> "idle"]
    /\ op = [p \in Procs |-> "none"]
    /\ loaded = [p \in Procs |-> <<>>]
    /\ idx = [p \in Procs |-> 0]
    /\ domain = [p \in Procs |-> NoDomain]
    /\ cdErr = [p \in Procs |-> Pending]
    /\ scan = [p \in Procs |-> 0]
    /\ snd = [p \in Procs |-> NoSend]
    /\ ret = [p \in Procs |-> Pending]
    /\ chk = [p \in Procs |-> NoChk]
    /\ log = [p \in Procs |-> <<>>]
    /\ lookups = 0
    /\ fired = [i \in DomainIDs |-> 0]
    /\ ops = 0

\* a turn of the loop: the send and the insert may each fail
DispatchAttempt(p) == SendAttempt(p, BOOLEAN, DispatchRows, SendResults)

\* test dispatches, one at a time
DispatchNext ==
    \E p \in Procs :
        \/ AllIdle /\ TestNotification(p, DispatchRows) /\ UNCHANGED ops
        \/ DispatchAttempt(p)
        \/ TriggerReturn(p)
        \/ Finish(p)

DispatchSpec == DispatchInit /\ [][DispatchNext]_vars

\* ------------------------------------------ specification of every operation

\* the answers of the endpoint explored while the handlers run: a failure, a
\* payload without expiry and a payload that expires after StartTime
AdminResponses ==
    { r \in MonitorResponses :
         r.transport /\ (r.expirationDate.present => r.expirationDate.t > StartTime) }

\* the lookup of a check while the handlers run
AdminQuery(p) == QueryWith(p, AdminResponses)

\* the table holds one row, the others are yet to be created; mail is the one
\* channel enabled
AdminInit ==
    /\ now = StartTime
    /\ alertDays = <<7, -1, 1>>
    /\ notifiers = NewNotifyService(Flags(TRUE, FALSE, FALSE, FALSE))
    /\ store = [i \in DomainIDs |-> IF i = 1 THEN NewDomain(i) ELSE NoDomain]
    /\ notifications = <<>>
    /\ pc = [p \in Procs |-> "idle"]
    /\ op = [p \in Procs |-> "none"]
    /\ loaded = [p \in Procs |-> <<>>]
    /\ idx = [p \in Procs |-> 0]
    /\ domain = [p \in Procs |-> NoDomain]
    /\ cdErr = [p \in Procs |-> Pending]
    /\ scan = [p \in Procs |-> 0]
    /\ snd = [p \in Procs |-> NoSend]
    /\ ret = [p \in Procs |-> Pending]
    /\ chk = [p \in Procs |-> NoChk]
    /\ log = [p \in Procs |-> <<>>]
    /\ lookups = 0
    /\ fired = [i \in DomainIDs |-> 0]
    /\ ops = 0

\* an operation starts while no other runs and fewer than MaxOps were started
Begin == AllIdle /\ ops < MaxOps /\ ops' = ops + 1

\* the operations of the monitor and of the handlers, one at a time
AdminNext ==
    \E p \in Procs :
          \/ Begin /\ CheckAllDomains(p)
          \/ Begin /\ RefreshDomain(p)
          \/ Begin /\ CreateDomain(p)
          \/ Begin /\ ImportDomains(p)
          \/ Begin /\ UpdateDomain(p)
          \/ Begin /\ DeleteDomain(p)
          \/ Begin /\ TestNotification(p, MaxNotifications)
          \/ BatchLoop(p)
          \/ BatchContinue(p)
          \/ RefreshReturn(p)
          \/ BackgroundReturn(p)
          \/ AdminQuery(p)
          \/ SaveStep(p)
          \/ CheckAndNotify(p)
          \/ SendOne(p)
          \/ SendReturn(p)
          \/ TriggerReturn(p)
          \/ Finish(p)

AdminSpec == AdminInit /\ [][AdminNext]_vars

\* --------------------------------------- specification of the mail sender's use

\* what a channel's Send may do when the mail sender is looked at closely
MailResults ==
    [channel \in DOMAIN SendResults |->
        IF channel = "*services.EmailNotifier"
        THEN { [raw |-> r, err |-> EmailSend(r)] : r \in SMTPResults }
        ELSE SendResults[channel]]

\* mail is enabled, alone or before the generic webhook; the first row was
\* checked once
MailInit ==
    /\ now = StartTime
    /\ alertDays \in AlertDaysChoices
    /\ notifiers \in { NewNotifyService(Flags(TRUE, w, FALSE, FALSE)) : w \in BOOLEAN }
    /\ \E r \in OkResponses :
          store = [i \in DomainIDs |->
                      IF i = 1 THEN Checked(NewDomain(i), r, StartTime) ELSE NewDomain(i)]
    /\ notifications = <<>>
    /\ pc = [p \in Procs |-> "idle"]
    /\ op = [p \in Procs |-> "none"]
    /\ loaded = [p \in Procs |-> <<>>]
    /\ idx = [p \in Procs |-> 0]
    /\ domain = [p \in Procs |-> NoDomain]
    /\ cdErr = [p \in Procs |-> Pending]
    /\ scan = [p \in Procs |-> 0]
    /\ snd = [p \in Procs |-> NoSend]
    /\ ret = [p \in Procs |-> Pending]
    /\ chk = [p \in Procs |-> NoChk]
    /\ log = [p \in Procs |-> <<>>]
    /\ lookups = 0
    /\ fired = [i \in DomainIDs |-> 0]
    /\ ops = 0

\* a turn of the loop; the inserts succeed
MailAttempt(p) == SendAttempt(p, CreateOutcomes, DispatchRows, MailResults)

\* test dispatches, one at a time
MailNext ==
    \E p \in Procs :
        \/ AllIdle /\ TestNotification(p, DispatchRows) /\ UNCHANGED ops
        \/ MailAttempt(p)
        \/ TriggerReturn(p)
        \/ Finish(p)

MailSpec == MailInit /\ [][MailNext]_vars

\* ------------------------------------- specification of the Lookup Client's use

\* the lookup of a check: the first row gets every answer, the other rows the
\* answers of the handlers' specification
LookupQuery(p) ==
    QueryWith(p, IF domain[p].id = 1 THEN LookupResponses ELSE AdminResponses)

\* the table holds every row, as inserted; mail is the one channel enabled
LookupInit ==
    /\ now = StartTime
    /\ alertDays = <<7, -1, 1>>
    /\ notifiers = NewNotifyService(Flags(TRUE, FALSE, FALSE, FALSE))
    /\ store = [i \in DomainIDs |-> NewDomain(i)]
    /\ notifications = <<>>
    /\ pc = [p \in Procs |-> "idle"]
    /\ op = [p \in Procs |-> "none"]
    /\ loaded = [p \in Procs |-> <<>>]
    /\ idx = [p \in Procs |-> 0]
    /\ domain = [p \in Procs |-> NoDomain]
    /\ cdErr = [p \in Procs |-> Pending]
    /\ scan = [p \in Procs |-> 0]
    /\ snd = [p \in Procs |-> NoSend]
    /\ ret = [p \in Procs |-> Pending]
    /\ chk = [p \in Procs |-> NoChk]
    /\ log = [p \in Procs |-> <<>>]
    /\ lookups = 0
    /\ fired = [i \in DomainIDs |-> 0]
    /\ ops = 0

\* batches and refreshes, one at a time
LookupNext ==
    \E p \in Procs :
          \/ Begin /\ CheckAllDomains(p)
          \/ Begin /\ RefreshDomain(p)
          \/ BatchLoop(p)
          \/ BatchContinue(p)
          \/ RefreshReturn(p)
          \/ LookupQuery(p)
          \/ SaveStep(p)
          \/ CheckAndNotify(p)
          \/ SendOne(p)
          \/ SendReturn(p)
          \/ Finish(p)

LookupSpec == LookupInit /\ [][LookupNext]_vars

\* ------------------------------------ specification of overlapping operations

\* an operation starts, whatever the other goroutine does, while fewer than
\* MaxOps were started
Launch == ops < MaxOps /\ ops' = ops + 1

\* the scheduler's batch and the handlers' refresh and update, interleaved step
\* by step: nothing in the code makes one wait for the other
ConcurrentNext ==
    \E p \in Procs :
          \/ Launch /\ CheckAllDomains(p)
          \/ Launch /\ RefreshDomain(p)
          \/ Launch /\ UpdateDomain(p)
          \/ BatchLoop(p)
          \/ BatchContinue(p)
          \/ RefreshReturn(p)
          \/ AdminQuery(p)
          \/ SaveStep(p)
          \/ CheckAndNotify(p)
          \/ SendOne(p)
          \/ SendReturn(p)
          \/ Finish(p)

ConcurrentSpec == AdminInit /\ [][ConcurrentNext]_vars

\* ------------------------------- specification with the check's two clock reads

\* CheckDomain reads the clock twice: time.Now() for last_checked (line 515) and
\* time.Until for days_remaining (line 519); here the two reads are two steps and
\* the clock may advance between them

\* lines 504-515: the lookup; on success the record in memory takes the facts
\* and the time of the first read
StampStep(p) ==
    /\ pc[p] = "query"
    /\ \E resp \in MonitorResponses :
          LET q == QueryDomain(domain[p].name, resp)
              failed == LookupFailed(domain[p], q.err, now)
              d == IF q.err # Nil THEN failed.domain
                   ELSE [UpdateDomainInfo(domain[p], q.info, now) EXCEPT
                            !.days = domain[p].days]
          IN /\ domain' = [domain EXCEPT ![p] = d]
             /\ cdErr' = [cdErr EXCEPT ![p] = IF q.err # Nil THEN failed.err ELSE @]
             /\ pc' = [pc EXCEPT ![p] = IF q.err = Nil THEN "days"
                                        ELSE CheckDomainNext("query", FALSE)]
             /\ chk' = [chk EXCEPT ![p] = [@ EXCEPT !.queries = @ + 1, !.t = now,
                                                    !.resp = resp, !.q = q,
                                                    !.updated = d]]
    /\ UNCHANGED <<ops, now, fired, alertDays, notifiers, store, notifications, op, loaded, idx,
                   snd, ret, log, lookups, scan>>

\* lines 518-520: days_remaining from the expiry and the time of the second read
DaysStep(p) ==
    /\ pc[p] = "days"
    /\ LET d == [domain[p] EXCEPT
                    !.days = UpdateDomainInfo(domain[p], chk[p].q.info, now).days]
       IN /\ domain' = [domain EXCEPT ![p] = d]
          /\ chk' = [chk EXCEPT ![p] = [@ EXCEPT !.updated = d]]
    /\ pc' = [pc EXCEPT ![p] = CheckDomainNext("query", TRUE)]
    /\ UNCHANGED <<ops, now, fired, alertDays, notifiers, store, notifications, op, loaded, idx,
                   cdErr, snd, ret, log, lookups, scan>>

\* the clock advances before either read
ClockTick ==
    /\ now + TickHours <= MaxTime
    /\ \E p \in Procs : pc[p] \in {"query", "days"}
    /\ now' = now + TickHours
    /\ UNCHANGED <<ops, alertDays, notifiers, store, notifications, pc, op, loaded, idx,
                   domain, cdErr, snd, ret, chk, log, lookups, scan, fired>>

ClockNext ==
    \/ ClockTick
    \/ \E p \in Procs :
          \/ AllIdle /\ CheckAllDomains(p) /\ UNCHANGED ops
          \/ AllIdle /\ RefreshDomain(p) /\ UNCHANGED ops
          \/ BatchLoop(p)
          \/ BatchContinue(p)
          \/ RefreshReturn(p)
          \/ StampStep(p)
          \/ DaysStep(p)
          \/ SaveStep(p)
          \/ CheckAndNotify(p)
          \/ SendOne(p)
          \/ SendReturn(p)
          \/ Finish(p)

ClockSpec == Init /\ [][ClockNext]_vars

\* ------------------------------------------- specification of the scheduler

\* scheduler.go lines 19, 27-33: cron.New() is given no job wrapper, so at each
\* tick of the schedule the job is started in a goroutine of its own, whether or
\* not the job of an earlier tick has returned; here either goroutine is such a
\* job, and at most MaxOps ticks arrive
ScheduleTick(p) == Launch /\ LoadBatch(p)

SchedulerNext ==
    \/ Tick
    \/ \E p \in Procs :
          \/ ScheduleTick(p)
          \/ BatchLoop(p)
          \/ BatchContinue(p)
          \/ AdminQuery(p)
          \/ SaveStep(p)
          \/ CheckAndNotify(p)
          \/ SendOne(p)
          \/ SendReturn(p)
          \/ Finish(p)

SchedulerSpec == AdminInit /\ [][SchedulerNext]_vars

\* ------------------------------------------------------------------ claims

\* the CheckDomain call of p has made its lookup, and it failed / succeeded
LookupErr(p) == chk[p].q.err # Nil /\ chk[p].q.err # Pending
LookupOk(p) == chk[p].queries > 0 /\ chk[p].q.err = Nil

\* CheckDomain has returned (to the batch's loop, or to the handler)
Returned(p) == pc[p] \in {"cdret", "loop", "done"}

Matches(days) == \E i \in 1..Len(alertDays) : alertDays[i] = days

\* C1: when CheckAllDomains returns, every row it loaded has been looked up
\* exactly once, in the order loaded, whatever happened to the rows before it;
\* a row whose lookup succeeded was updated with the facts and saved once, and
\* holds the update in the store when the save succeeded.
C1_BatchIsolation ==
    \A p \in Procs :
        (op[p] = "CheckAllDomains" /\ pc[p] = "done") =>
            /\ Len(log[p]) = Len(loaded[p])
            /\ \A i \in 1..Len(log[p]) :
                  LET e == log[p][i]
                  IN /\ e.id = loaded[p][i].id
                     /\ e.chk.before = loaded[p][i]
                     /\ e.chk.queries = 1
                     /\ e.chk.q.err = Nil =>
                           /\ e.mem.lastChecked = e.chk.t
                           /\ e.mem.registrar = e.chk.q.info.registrar
                           /\ e.mem.expiry = e.chk.q.info.expiry
                           /\ e.chk.saves = 1
                           /\ e.chk.saved => store[e.id] = e.mem

\* a batch is over in which a row's check failed and a later row was updated
\* and persisted
C1_Witness ==
    \E p \in Procs :
        /\ op[p] = "CheckAllDomains" /\ pc[p] = "done"
        /\ \E i, j \in 1..Len(log[p]) :
              /\ i < j
              /\ log[p][i].err # Nil
              /\ log[p][j].chk.saved
              /\ store[log[p][j].id] = log[p][j].mem
              /\ store[log[p][j].id].lastChecked # ZeroTime

\* C2: CheckAllDomains returns nil whenever the load succeeded, whatever the
\* checks returned; it returns an error only when the load failed, and then no
\* domain was checked.
C2_BatchResult ==
    \A p \in Procs :
        (op[p] = "CheckAllDomains" /\ pc[p] = "done") =>
            IF idx[p] = 0
            THEN /\ ret[p] = Wrap("failed to fetch domains", DBError)
                 /\ log[p] = <<>>
                 /\ chk[p] = NoChk
                 /\ domain[p] = NoDomain
            ELSE ret[p] = Nil

\* a batch returned nil although every one of its checks failed
C2_Witness ==
    \E p \in Procs :
        /\ op[p] = "CheckAllDomains" /\ pc[p] = "done" /\ ret[p] = Nil
        /\ Len(log[p]) >= 2
        /\ \A i \in 1..Len(log[p]) : log[p][i].err # Nil

\* C3: after a failed lookup CheckDomain has returned an error and done nothing
\* else: the record in memory and the stored row are as they were at the call,
\* nothing was saved, eligibility was not evaluated, nothing was dispatched and
\* no notification row was written.
C3_LookupFailureTouchesNothing ==
    \A p \in Procs :
        LookupErr(p) =>
            /\ Returned(p)
            /\ cdErr[p] # Nil /\ cdErr[p] # Pending
            /\ domain[p] = chk[p].before
            /\ store[domain[p].id] = chk[p].before
            /\ chk[p].queries = 1
            /\ chk[p].saves = 0
            /\ chk[p].evals = 0
            /\ chk[p].sent = <<>>
            /\ chk[p].attempts = 0
            /\ chk[p].records = 0

\* the lookup failed for a record that an earlier check had filled
C3_Witness ==
    \E p \in Procs :
        /\ LookupErr(p) /\ pc[p] = "cdret"
        /\ chk[p].before.lastChecked # ZeroTime
        /\ chk[p].before.days # 0

\* C4 as claimed: the error CheckDomain returns after a failed lookup is the
\* Lookup Client's error itself.
C4_LookupErrorUnmodified ==
    \A p \in Procs :
        (LookupErr(p) /\ Returned(p)) => cdErr[p] = chk[p].q.err

\* C4 as amended: the error CheckDomain returns after a failed lookup wraps the
\* Lookup Client's error: its message is "WHOIS query failed" followed by the
\* lookup error's, and unwrapping it gives the lookup error; RefreshDomain
\* answers with that error.
C4_LookupErrorWrapped ==
    \A p \in Procs :
        (LookupErr(p) /\ Returned(p)) =>
            /\ Len(cdErr[p]) = Len(chk[p].q.err) + 1
            /\ Head(cdErr[p]) = "WHOIS query failed"
            /\ Unwrap(cdErr[p]) = chk[p].q.err
            /\ (op[p] = "RefreshDomain" /\ pc[p] = "done") => ret[p] = cdErr[p]

\* RefreshDomain answers with the wrapped transport error
C4_Witness ==
    \E p \in Procs :
        /\ LookupErr(p) /\ op[p] = "RefreshDomain" /\ pc[p] = "done"
        /\ ret[p] = <<"WHOIS query failed", "failed to query WHOIS", "transport error">>

\* C5: the record is saved only after the looked-up facts and last-checked were
\* put in it, eligibility is evaluated only after the save succeeded, and while
\* CheckAndNotify dispatches the stored row is the record of this check.
C5_SaveBeforeNotify ==
    \A p \in Procs :
        /\ (pc[p] = "save" \/ chk[p].saves > 0) =>
              /\ LookupOk(p) /\ chk[p].queries = 1
              /\ domain[p].registrar = chk[p].q.info.registrar
              /\ domain[p].expiry = chk[p].q.info.expiry
              /\ domain[p].created = chk[p].q.info.created
              /\ domain[p].updated = chk[p].q.info.updated
              /\ domain[p].status = chk[p].q.info.status
              /\ domain[p].lastChecked = chk[p].t
        /\ (pc[p] = "notify" \/ chk[p].evals > 0 \/ chk[p].sent # <<>>) =>
              /\ chk[p].saves = 1 /\ chk[p].saved
              /\ store[domain[p].id] = domain[p]
        /\ chk[p].sentAfterSave
        /\ (pc[p] = "send" /\ snd[p].caller = "CheckAndNotify") =>
              /\ chk[p].saved
              /\ store[domain[p].id] = domain[p]

\* a dispatch of CheckAndNotify is under way, one channel attempted, the row saved
C5_Witness ==
    \E p \in Procs :
        /\ pc[p] = "send" /\ snd[p].caller = "CheckAndNotify" /\ snd[p].i > 1
        /\ chk[p].saved
        /\ store[domain[p].id] = domain[p]
        /\ domain[p].lastChecked = chk[p].t

\* C6 as claimed: after a successful lookup with a non-zero expiry E at time T,
\* days_remaining is floor((E - T) / 1 day), for E before T as well.
C6_DaysFloor ==
    \A p \in Procs :
        (LookupOk(p) /\ chk[p].q.info.expiry # ZeroTime) =>
            domain[p].days = (chk[p].q.info.expiry - chk[p].t) \div HoursPerDay

\* C7: after a successful lookup without expiry, days_remaining is what it was
\* at the call, the other facts and last-checked are overwritten, and the record
\* goes on to be saved: the stored row then holds the old days_remaining.
C7_ZeroExpiryKeepsDays ==
    \A p \in Procs :
        (LookupOk(p) /\ chk[p].q.info.expiry = ZeroTime) =>
            /\ domain[p].days = chk[p].before.days
            /\ domain[p].expiry = ZeroTime
            /\ domain[p].registrar = chk[p].q.info.registrar
            /\ domain[p].created = chk[p].q.info.created
            /\ domain[p].updated = chk[p].q.info.updated
            /\ domain[p].status = chk[p].q.info.status
            /\ domain[p].lastChecked = chk[p].t
            /\ (pc[p] = "save" \/ chk[p].saves = 1)
            /\ chk[p].saved =>
                  /\ store[domain[p].id] = domain[p]
                  /\ store[domain[p].id].days = chk[p].before.days

\* a record with a days_remaining left by an earlier check was checked again,
\* the lookup gave no expiry, and the record was saved
C7_Witness ==
    \E p \in Procs :
        /\ LookupOk(p) /\ chk[p].q.info.expiry = ZeroTime
        /\ chk[p].before.days # 0
        /\ chk[p].before.expiry # ZeroTime
        /\ chk[p].saved
        /\ store[domain[p].id].days = chk[p].before.days
        /\ store[domain[p].id].expiry = ZeroTime

\* C8: after a failed save CheckDomain has returned an error, eligibility was
\* not evaluated, nothing was dispatched and no notification row was written;
\* RefreshDomain answers with the error.
C8_SaveFailure ==
    \A p \in Procs :
        (chk[p].saves > 0 /\ ~chk[p].saved) =>
            /\ Returned(p)
            /\ cdErr[p] # Nil /\ cdErr[p] # Pending
            /\ Head(cdErr[p]) = "failed to save domain"
            /\ chk[p].saves = 1
            /\ chk[p].evals = 0
            /\ chk[p].sent = <<>>
            /\ chk[p].attempts = 0
            /\ chk[p].records = 0
            /\ (op[p] = "RefreshDomain" /\ pc[p] = "done") => ret[p] = cdErr[p]

\* the save failed for a record whose days_remaining equals a threshold
C8_Witness ==
    \E p \in Procs :
        /\ chk[p].saves = 1 /\ ~chk[p].saved
        /\ op[p] = "RefreshDomain" /\ pc[p] = "done"
        /\ ret[p] = <<"failed to save domain", "database error">>
        /\ chk[p].q.info.expiry # ZeroTime
        /\ Matches(domain[p].days)

\* C9: once lookup and save succeeded, CheckDomain returns nil whatever the
\* dispatch did, and the stored row stays the saved record.
C9_DispatchFailureNotFatal ==
    \A p \in Procs :
        (chk[p].saved /\ Returned(p)) =>
            /\ cdErr[p] = Nil
            /\ store[domain[p].id] = chk[p].updated
            /\ (op[p] = "RefreshDomain" /\ pc[p] = "done") => ret[p] = Nil

\* every channel failed, SendNotification returned an error, and the refresh
\* answered success
C9_Witness ==
    \E p \in Procs :
        /\ chk[p].saved /\ op[p] = "RefreshDomain" /\ pc[p] = "done" /\ ret[p] = Nil
        /\ chk[p].attempts = Len(notifiers) /\ Len(notifiers) >= 2
        /\ chk[p].snRet # Nil /\ chk[p].snRet # Pending
        /\ store[domain[p].id].lastChecked = chk[p].t

\* C10: one call of CheckAndNotify calls SendNotification at most once, and it
\* does so iff days_remaining equals some threshold; the value passed is that of
\* the first such threshold.
C10_ExactMatchOnce ==
    \A p \in Procs :
        /\ chk[p].evals <= 1
        /\ Len(chk[p].sent) <= 1
        /\ (chk[p].evals = 1 /\ Returned(p)) =>
              (Len(chk[p].sent) = 1 <=> Matches(domain[p].days))
        /\ Len(chk[p].sent) >= 1 =>
              /\ chk[p].sent[1] = domain[p].days
              /\ \E i \in 1..Len(alertDays) :
                    /\ alertDays[i] = chk[p].sent[1]
                    /\ \A j \in 1..(i - 1) : alertDays[j] # domain[p].days

\* CheckAndNotify returned after one dispatch although two thresholds of the
\* list equal days_remaining
C10_Witness ==
    \E p \in Procs :
        /\ pc[p] = "cdret" /\ chk[p].evals = 1
        /\ Len(chk[p].sent) = 1
        /\ Cardinality({i \in 1..Len(alertDays) : alertDays[i] = domain[p].days}) >= 2

\* C11 as claimed: while the stored days_remaining of a domain stays at a
\* threshold, the checks of that domain dispatch for it exactly once: never more
\* than once, and once as soon as a check saved the record at that value.
C11_OneDispatchPerThreshold ==
    /\ \A id \in DomainIDs : fired[id] <= 1
    /\ \A p \in Procs :
          (chk[p].saved /\ Returned(p) /\ Matches(domain[p].days)) =>
              fired[domain[p].id] = 1

\* ---- the dispatcher (DispatchSpec)

\* p is in a call of SendNotification, or back from one made by TriggerNotification
InDispatch(p) == snd[p].caller # "none"

\* the test dispatch of p has returned to the handler
Dispatched(p) == op[p] = "TestNotification" /\ pc[p] = "done" /\ InDispatch(p)

\* the rows the table took since SendNotification was called
Appended(p) == SubSeq(notifications, snd[p].base + 1, Len(notifications))

\* the attempts of the dispatch whose insert the table accepted
StoredAttempts(p) == SelectSeq(snd[p].attempted, LAMBDA a : a.stored)

AllStored(p) == \A k \in 1..Len(snd[p].attempted) : snd[p].attempted[k].stored

AllFailed(p) == \A k \in 1..Len(snd[p].attempted) : snd[p].attempted[k].err # Nil

\* C12: during a dispatch the senders attempted so far are the first ones of the
\* list, each once and in list order, whatever they returned; when
\* SendNotification returns, every sender of the list has been attempted once.
C12_EverySenderOnce ==
    \A p \in Procs :
        InDispatch(p) =>
            /\ snd[p].i = Len(snd[p].attempted) + 1
            /\ Len(snd[p].attempted) <= Len(notifiers)
            /\ \A k \in 1..Len(snd[p].attempted) :
                  snd[p].attempted[k].channel = notifiers[k]
            /\ chk[p].attempts = Len(snd[p].attempted)
            /\ pc[p] = "done" => Len(snd[p].attempted) = Len(notifiers)

\* four senders were attempted although the first three failed
C12_Witness ==
    \E p \in Procs :
        /\ Dispatched(p) /\ Len(notifiers) = 4
        /\ Len(snd[p].attempted) = 4
        /\ \A k \in 1..3 : snd[p].attempted[k].err # Nil
        /\ snd[p].attempted[4].err = Nil

\* C13: at every point of a dispatch the rows appended since its call are, in
\* order, one row per attempt made so far whose insert the table accepted, for
\* the dispatched record and the attempt's channel, with status "success" iff
\* the channel's Send returned no error; with every insert accepted the
\* dispatch leaves exactly one row per configured channel, in list order.
C13_OneRecordPerAttempt ==
    \A p \in Procs :
        InDispatch(p) =>
            LET rows == Appended(p)
                stored == StoredAttempts(p)
            IN /\ Len(rows) = Len(stored)
               /\ \A k \in 1..Len(rows) :
                     /\ rows[k].domainID = domain[p].id
                     /\ rows[k].type = stored[k].channel
                     /\ rows[k].status \in {"success", "failed"}
                     /\ rows[k].status = "success" <=> stored[k].err = Nil
               /\ AllStored(p) =>
                     /\ Len(rows) = snd[p].i - 1
                     /\ \A k \in 1..Len(rows) : rows[k].type = notifiers[k]
                     /\ pc[p] = "done" => Len(rows) = Len(notifiers)

\* three channels, only the second failed: the rows success, failed, success
\* were appended after a row the table already held
C13_Witness ==
    \E p \in Procs :
        /\ Dispatched(p) /\ Len(notifiers) = 3 /\ AllStored(p)
        /\ snd[p].base > 0
        /\ Len(Appended(p)) = 3
        /\ Appended(p)[1].status = "success"
        /\ Appended(p)[2].status = "failed"
        /\ Appended(p)[3].status = "success"
        /\ snd[p].attempted[2].err # Nil

\* C14: a dispatch in which at least one channel's Send succeeded returns
\* success, whatever the other channels did and wherever they stand in the list.
C14_AnySuccessIsSuccess ==
    \A p \in Procs :
        (Dispatched(p) /\ ~AllFailed(p)) =>
            /\ chk[p].snRet = Nil
            /\ ret[p] = Nil

\* success was returned with one success between two failures
C14_Witness ==
    \E p \in Procs :
        /\ Dispatched(p) /\ ret[p] = Nil
        /\ Len(snd[p].attempted) >= 3
        /\ snd[p].attempted[1].err # Nil
        /\ snd[p].attempted[2].err = Nil
        /\ snd[p].attempted[Len(snd[p].attempted)].err # Nil

\* C15: a dispatch over one or more channels that all failed returns the error
\* of the last channel of the list; the rows it appended all have status
\* "failed", one per channel when the table accepted every insert.
C15_AllFailedLastError ==
    \A p \in Procs :
        (Dispatched(p) /\ Len(notifiers) >= 1 /\ AllFailed(p)) =>
            /\ ret[p] # Nil
            /\ ret[p] = SendError(notifiers[Len(notifiers)])
            /\ ret[p] = snd[p].attempted[Len(notifiers)].err
            /\ \A k \in 1..Len(Appended(p)) : Appended(p)[k].status = "failed"
            /\ AllStored(p) => Len(Appended(p)) = Len(notifiers)

\* three channels failed; the answer is the third's error, not the first's
C15_Witness ==
    \E p \in Procs :
        /\ Dispatched(p) /\ Len(notifiers) = 3 /\ AllFailed(p) /\ AllStored(p)
        /\ ret[p] = SendError(notifiers[3])
        /\ ret[p] # SendError(notifiers[1])
        /\ Len(Appended(p)) = 3

\* C16 as claimed: with no channel configured, SendNotification returns a
\* failure, and the test dispatch answers with it.
C16_ZeroChannelsFail ==
    \A p \in Procs :
        (Dispatched(p) /\ notifiers = <<>>) =>
            /\ chk[p].snRet # Nil
            /\ ret[p] # Nil

\* C17: a test dispatch of a stored row calls SendNotification once, with the
\* row's days_remaining, whether or not that value is a threshold; it makes no
\* lookup and no save, leaves the row as it was, and answers with
\* SendNotification's verdict.
C17_TriggerUnconditional ==
    \A p \in Procs :
        (op[p] = "TestNotification" /\ domain[p] # NoDomain) =>
            /\ InDispatch(p)
            /\ snd[p].caller = "TriggerNotification"
            /\ chk[p].sent = <<domain[p].days>>
            /\ snd[p].days = domain[p].days
            /\ domain[p] = chk[p].before
            /\ store[domain[p].id] = chk[p].before
            /\ chk[p].queries = 0 /\ chk[p].saves = 0 /\ chk[p].evals = 0
            /\ lookups = 0
            /\ pc[p] = "done" =>
                  /\ ret[p] = chk[p].snRet
                  /\ ret[p] = IF ~AllFailed(p) \/ notifiers = <<>> THEN Nil
                              ELSE snd[p].attempted[Len(notifiers)].err

\* a row whose days_remaining is no threshold was dispatched, every channel
\* failed, and the handler answered with the error
C17_Witness ==
    \E p \in Procs :
        /\ Dispatched(p) /\ ~Matches(domain[p].days)
        /\ domain[p].days # 0
        /\ Len(snd[p].attempted) >= 2 /\ AllFailed(p)
        /\ ret[p] # Nil

\* the enabled flag of a channel
FlagOf(cfg, channel) ==
    CASE channel = "*services.EmailNotifier" -> cfg.email
      [] channel = "*services.WebhookNotifier" -> cfg.webhook
      [] channel = "*services.TelegramNotifier" -> cfg.telegram
      [] channel = "*services.DingDingNotifier" -> cfg.dingding

\* the lists NewNotifyService builds for the sixteen combinations of flags
SenderLists == { NewNotifyService(cfg) : cfg \in AllNotificationConfigs }

\* every list holds exactly the enabled channels, each once, in declaration order
SenderListsRight ==
    /\ \A cfg \in AllNotificationConfigs :
          LET l == NewNotifyService(cfg)
          IN /\ l = SelectSeq(ChannelOrder, LAMBDA ch : FlagOf(cfg, ch))
             /\ \A i, j \in 1..Len(l) : l[i] = l[j] => i = j
             /\ \A k \in 1..Len(ChannelOrder) :
                   FlagOf(cfg, ChannelOrder[k]) <=> \E i \in 1..Len(l) : l[i] = ChannelOrder[k]
    /\ Cardinality(SenderLists) = Cardinality(AllNotificationConfigs)

\* C18: for each of the sixteen combinations of flags, the list NewNotifyService
\* builds holds exactly the enabled channels, each once, in the order mail,
\* webhook, bot-chat, signed webhook; the dispatcher's list is one of these, and
\* a dispatch goes through the channels in that order.
C18_SenderList ==
    /\ SenderListsRight
    /\ notifiers \in SenderLists
    /\ \A p \in Procs : \A k \in 1..Len(snd[p].attempted) :
          snd[p].attempted[k].channel = notifiers[k]
    /\ \A p \in Procs : \A k \in 1..Len(snd[p].attempted) :
          \E i \in 1..Len(ChannelOrder) :
              /\ snd[p].attempted[k].channel = ChannelOrder[i]
              /\ \A m \in 1..(k - 1) :
                    \E j \in 1..(i - 1) : snd[p].attempted[m].channel = ChannelOrder[j]

\* with the generic webhook disabled, a dispatch went through mail, bot-chat and
\* signed webhook, in that order
C18_Witness ==
    \E p \in Procs :
        /\ Dispatched(p)
        /\ notifiers = NewNotifyService(Flags(TRUE, FALSE, TRUE, TRUE))
        /\ Len(snd[p].attempted) = 3
        /\ snd[p].attempted[1].channel = "*services.EmailNotifier"
        /\ snd[p].attempted[2].channel = "*services.TelegramNotifier"
        /\ snd[p].attempted[3].channel = "*services.DingDingNotifier"

\* ---- every operation (AdminSpec)

\* a check of row id is saving after a lookup that gave an expiry
SavingChecked(id) ==
    \E p \in Procs :
        /\ pc[p] = "save" /\ domain[p].id = id
        /\ LookupOk(p) /\ chk[p].q.info.expiry # ZeroTime

\* C19 as claimed: no step changes the days_remaining of a stored row but the
\* save of a CheckDomain whose lookup gave a non-zero expiry, and a row enters
\* the table active and with zero monitoring fields.
C19_DaysOnlyByCheck ==
    [][\A id \in DomainIDs :
          /\ (store[id].id = id /\ store'[id].id = id /\ store'[id].days # store[id].days) =>
                SavingChecked(id)
          /\ (store[id].id # id /\ store'[id].id = id) =>
                /\ store'[id].active
                /\ store'[id].registrar = "" /\ store'[id].status = ""
                /\ store'[id].expiry = ZeroTime /\ store'[id].created = ZeroTime
                /\ store'[id].updated = ZeroTime /\ store'[id].lastChecked = ZeroTime
                /\ store'[id].days = 0]_vars

\* a turn of SendNotification's loop is what takes the table from rows to rows'
RecordedBy(p, rows, rows2) ==
    /\ pc[p] = "send" /\ snd[p].i <= Len(notifiers)
    /\ \E status \in {"success", "failed"} :
          rows2 = Append(rows, NotificationRecord(domain[p], notifiers[snd[p].i], status))

\* C20: every step leaves the rows of the notifications table where and as they
\* were, and a step that changes the table is a turn of SendNotification's loop
\* appending the row of its attempt.
C20_AppendOnly ==
    [][/\ Len(notifications') >= Len(notifications)
       /\ SubSeq(notifications', 1, Len(notifications)) = notifications
       /\ notifications' # notifications =>
             \E p \in Procs : RecordedBy(p, notifications, notifications')]_vars

\* the table holds the rows of a check's dispatch and of a test dispatch, and a
\* row of the domains table was updated since
C20_Witness ==
    /\ Len(notifications) >= 2
    /\ \E p \in Procs : op[p] = "UpdateDomain" /\ pc[p] = "done" /\ ret[p] = Nil
    /\ \E i \in DomainIDs : fired[i] > 0

\* the keys of the rows a batch holds
LoadedIDs(p) == { loaded[p][k].id : k \in 1..Len(loaded[p]) }

\* C21: the step that loads a batch takes exactly the rows that are active at
\* that moment, as they are stored; from then to the end of the batch, a row
\* that was not loaded is never the record being checked, is not looked up, is
\* left as stored and gets no notification row, and when the batch returns every
\* loaded row has been looked up once.
C21_OnlyActiveChecked ==
    [][\A p \in Procs :
          op'[p] = "CheckAllDomains" =>
             /\ (pc[p] = "idle" /\ pc'[p] = "loop") =>
                   /\ \A id \in DomainIDs :
                         (store[id].id = id /\ store[id].active)
                            <=> \E k \in 1..Len(loaded'[p]) : loaded'[p][k] = store[id]
                   /\ \A k \in 1..Len(loaded'[p]) :
                         /\ loaded'[p][k].active
                         /\ loaded'[p][k].id \in DomainIDs
                         /\ store[loaded'[p][k].id] = loaded'[p][k]
                   /\ \A j, k \in 1..Len(loaded'[p]) :
                         j < k => loaded'[p][j].id < loaded'[p][k].id
             /\ \A id \in DomainIDs \ LoadedIDs(p)' :
                   /\ store'[id] = store[id]
                   /\ domain'[p].id # id
                   /\ chk'[p].before.id # id
                   /\ \A k \in (Len(notifications) + 1)..Len(notifications') :
                         notifications'[k].domainID # id
                   /\ \A k \in 1..Len(log'[p]) : log'[p][k].id # id
             /\ (pc'[p] = "done" /\ idx'[p] > 0) =>
                   /\ Len(log'[p]) = Len(loaded'[p])
                   /\ \A k \in 1..Len(log'[p]) :
                         log'[p][k].id = loaded'[p][k].id /\ log'[p][k].chk.queries = 1]_vars

\* a batch is over that checked and saved one row while another row of the
\* table, made inactive before the batch, is as it was stored
C21_Witness ==
    \E p \in Procs :
        /\ op[p] = "CheckAllDomains" /\ pc[p] = "done"
        /\ Len(log[p]) = 1 /\ log[p][1].chk.saved
        /\ \E id \in DomainIDs :
              /\ store[id].id = id /\ ~store[id].active
              /\ store[id].tags = "parked"
              /\ id \notin LoadedIDs(p)

\* what one CheckDomain call, of history c, has done when it has returned: one
\* lookup; one save after a lookup that succeeded and none otherwise; after a
\* dispatch, one Send per channel
OneOfEach(c) ==
    /\ c.queries = 1
    /\ c.saves = IF c.q.err = Nil THEN 1 ELSE 0
    /\ c.attempts = IF c.sent # <<>> THEN Len(notifiers) ELSE 0
    /\ Len(c.sent) <= 1

\* C22: a CheckDomain call never makes a second lookup or a second save, and
\* has made exactly one lookup when it returns, whether lookup and save failed or
\* not; a batch that returns has called CheckDomain once for each row it loaded,
\* in order; a dispatch calls each channel's Send once, whatever the Sends
\* return.
C22_NoRetry ==
    \A p \in Procs :
        /\ chk[p].queries <= 1 /\ chk[p].saves <= 1
        /\ (LookupOk(p) /\ pc[p] # "save") => chk[p].saves = 1
        /\ LookupErr(p) => chk[p].saves = 0 /\ Returned(p)
        /\ (chk[p].saves = 1 /\ ~chk[p].saved) => Returned(p)
        /\ pc[p] = "cdret" => OneOfEach(chk[p])
        /\ chk[p].attempts <= Len(notifiers)
        /\ pc[p] = "send" =>
              /\ chk[p].attempts = Len(snd[p].attempted)
              /\ \A k \in 1..Len(snd[p].attempted) : snd[p].attempted[k].channel = notifiers[k]
        /\ (op[p] = "CheckAllDomains" /\ pc[p] = "done" /\ idx[p] > 0) =>
              /\ Len(log[p]) = Len(loaded[p])
              /\ \A k \in 1..Len(log[p]) :
                    /\ log[p][k].id = loaded[p][k].id
                    /\ OneOfEach(log[p][k].chk)

\* a batch is over in which the lookup of the first row failed and every Send
\* of the dispatch for the second row failed: one lookup each, one Send per
\* channel
C22_Witness ==
    \E p \in Procs :
        /\ op[p] = "CheckAllDomains" /\ pc[p] = "done" /\ Len(log[p]) = 2
        /\ log[p][1].err # Nil /\ log[p][1].chk.queries = 1
        /\ log[p][2].chk.attempts = 2 /\ Len(notifiers) = 2
        /\ log[p][2].chk.snRet # Nil /\ log[p][2].chk.snRet # Pending

\* C23 as claimed: a batch that was loaded returns, whatever the endpoints of
\* the lookup and of the channels do.
C23_BatchFinishes ==
    \A p \in Procs :
        (op[p] = "CheckAllDomains" /\ pc[p] = "loop") ~> (pc[p] = "done")

\* C24 as claimed: a dispatch in which the insert of some attempt's row failed
\* does not return success.
C24_AppendFailurePropagates ==
    \A p \in Procs :
        (Dispatched(p) /\ ~AllStored(p)) =>
            /\ chk[p].snRet # Nil
            /\ ret[p] # Nil

\* ---- overlapping operations (ConcurrentSpec)

\* the rows of the notifications table for a domain
RowsOf(id) == Cardinality({ k \in 1..Len(notifications) : notifications[k].domainID = id })

\* the CheckDomain call of p has returned after its lookup and its save succeeded
CheckedAndSaved(p) == Returned(p) /\ chk[p].queries = 1 /\ chk[p].saved

\* C25: each of two checks of one domain that are in progress together makes
\* its own lookup, save and threshold evaluation: a check that saved a record
\* whose days_remaining equals a threshold has dispatched once over every
\* channel, whatever the other check did, and when both have, the table holds
\* the rows of both dispatches for that domain.
C25_OverlappingChecksBothDispatch ==
    \A p, q \in Procs :
        (p # q /\ CheckedAndSaved(p) /\ CheckedAndSaved(q) /\ domain[p].id = domain[q].id) =>
            /\ chk[p].saves = 1 /\ chk[q].saves = 1
            /\ chk[p].evals = 1 /\ chk[q].evals = 1
            /\ Matches(domain[p].days) <=> chk[p].sent = <<domain[p].days>>
            /\ Matches(domain[p].days) =>
                  chk[p].attempts = Len(notifiers) /\ chk[p].records = Len(notifiers)
            /\ (Matches(domain[p].days) /\ Matches(domain[q].days)) =>
                  RowsOf(domain[p].id) >= chk[p].records + chk[q].records

\* the batch and a refresh both loaded the row before either saved it, both saw
\* days_remaining at the same threshold and both dispatched: two rows per channel
C25_Witness ==
    \E p, q \in Procs :
        /\ p # q /\ CheckedAndSaved(p) /\ CheckedAndSaved(q)
        /\ domain[p].id = domain[q].id
        /\ op[p] = "CheckAllDomains" /\ op[q] = "RefreshDomain"
        /\ chk[p].before = chk[q].before /\ chk[p].before.lastChecked = ZeroTime
        /\ domain[p].days = domain[q].days /\ Matches(domain[p].days)
        /\ Len(notifiers) >= 1
        /\ RowsOf(domain[p].id) = 2 * Len(notifiers)

\* C30 as claimed: the save of a check leaves the name, the active flag and the
\* tags of the stored row as they are at that moment, also when the row was
\* updated after the check loaded its copy.
C30_SaveKeepsAdminFields ==
    [][\A p \in Procs :
          (pc[p] = "save" /\ pc'[p] # "save") =>
              LET id == domain[p].id
              IN /\ store'[id].name = store[id].name
                 /\ store'[id].active = store[id].active
                 /\ store'[id].tags = store[id].tags]_vars

\* ---- the Lookup Client (LookupSpec)

\* the answer is one of the three failures: transport, HTTP status, envelope code
FailedAnswer(r) == ~r.transport \/ r.http # StatusOK \/ r.code # 0

\* what a CheckDomain call of history c did when its lookup got a failed answer:
\* QueryDomain returned an error carrying the cause and no facts, and the call
\* returned that error, wrapped, without a save
LookupRejected(c) ==
    /\ c.q.err # Nil /\ c.q.err # Pending
    /\ c.q.info = NoInfo
    /\ ~c.resp.transport => c.q.err = <<"failed to query WHOIS", "transport error">>
    /\ (c.resp.transport /\ c.resp.http # StatusOK) => c.q.err = <<"WHOIS API returned status">>
    /\ (c.resp.transport /\ c.resp.http = StatusOK /\ c.resp.decode /\ c.resp.code # 0) =>
          c.q.err = <<"WHOIS API error", c.resp.msg>>
    /\ c.queries = 1 /\ c.saves = 0 /\ c.evals = 0 /\ c.sent = <<>>

\* C26: a lookup answered by a failed transport, by an HTTP status other than
\* 200 or by an envelope with a non-zero code returns an error and no facts,
\* whatever payload the answer carries; the CheckDomain call returns an error
\* and leaves the record as it was, and a batch goes on to check the rows after
\* it.
C26_FailedAnswerIsLookupError ==
    \A p \in Procs :
        /\ (chk[p].queries > 0 /\ FailedAnswer(chk[p].resp)) =>
              /\ LookupRejected(chk[p])
              /\ Returned(p)
              /\ cdErr[p] = Wrap("WHOIS query failed", chk[p].q.err)
              /\ domain[p] = chk[p].before
              /\ store[domain[p].id] = chk[p].before
        /\ (op[p] = "CheckAllDomains" /\ pc[p] = "done" /\ idx[p] > 0) =>
              /\ Len(log[p]) = Len(loaded[p])
              /\ \A k \in 1..Len(log[p]) :
                    /\ log[p][k].chk.queries = 1
                    /\ FailedAnswer(log[p][k].chk.resp) =>
                          /\ LookupRejected(log[p][k].chk)
                          /\ log[p][k].err # Nil
                          /\ log[p][k].mem = loaded[p][k]
                    /\ ~FailedAnswer(log[p][k].chk.resp) /\ log[p][k].chk.q.err = Nil =>
                          log[p][k].chk.saves = 1

\* a batch is over whose first lookup was answered with HTTP status 500 and a
\* well-formed payload, and whose second row was checked and saved
C26_Witness ==
    \E p \in Procs :
        /\ op[p] = "CheckAllDomains" /\ pc[p] = "done" /\ Len(log[p]) = 2
        /\ log[p][1].chk.resp = [FullPayload EXCEPT !.http = 500]
        /\ log[p][1].err # Nil
        /\ store[log[p][1].id] = NewDomain(log[p][1].id)
        /\ log[p][2].chk.saved
        /\ store[log[p][2].id].lastChecked # ZeroTime

\* the answer is a success envelope: it arrived, with status 200, decodes, and
\* its code is zero
SuccessEnvelope(r) == r.transport /\ r.http = StatusOK /\ r.decode /\ r.code = 0

\* the string of a date field parses in one of the four layouts
Parses(f) == f.present /\ \E i \in 1..Len(DateLayouts) : DateLayouts[i] = f.layout

\* the instant a date string that parses denotes
Instant(f) == IF f.layout = "date" THEN (f.t \div HoursPerDay) * HoursPerDay ELSE f.t

\* C27 as claimed: a lookup answered by a success envelope returns facts and no
\* error.
C27_SuccessEnvelopeGivesFacts ==
    \A p \in Procs :
        (chk[p].queries > 0 /\ SuccessEnvelope(chk[p].resp)) => chk[p].q.err = Nil

\* C27 as amended: a lookup answered by a success envelope that carries a
\* payload returns facts and no error, whichever of registrar, status and the
\* three dates are absent, of another type or unparseable: each such field is
\* zero in the facts and each field that is well formed has its value; the
\* check goes on to save the record.  A success envelope without payload is an
\* error.
C27_PartialDataNotFatal ==
    \A p \in Procs :
        (chk[p].queries > 0 /\ SuccessEnvelope(chk[p].resp)) =>
            LET r == chk[p].resp
                info == chk[p].q.info
            IN IF r.data
               THEN /\ chk[p].q.err = Nil
                    /\ info.registrar = IF r.registrar.present THEN r.registrar.v ELSE ""
                    /\ info.status = IF r.status.present THEN r.status.v ELSE ""
                    /\ info.expiry = IF Parses(r.expirationDate)
                                     THEN Instant(r.expirationDate) ELSE ZeroTime
                    /\ info.created = IF Parses(r.creationDate)
                                      THEN Instant(r.creationDate) ELSE ZeroTime
                    /\ info.updated = IF Parses(r.updatedDate)
                                      THEN Instant(r.updatedDate) ELSE ZeroTime
                    /\ (pc[p] = "save" \/ chk[p].saves = 1)
               ELSE /\ chk[p].q.err = <<"no data in WHOIS response">>
                    /\ chk[p].q.info = NoInfo
                    /\ Returned(p) /\ chk[p].saves = 0

\* a record was saved from a payload without registrar, with a status of
\* another type, an expiry that does not parse and a creation date that does
C27_Witness ==
    \E p \in Procs :
        /\ chk[p].saved
        /\ chk[p].resp.data
        /\ chk[p].resp.registrar = NoStr /\ chk[p].resp.status = NotStr
        /\ chk[p].resp.expirationDate.layout = "garbage"
        /\ chk[p].resp.updatedDate.layout = "garbage"
        /\ Parses(chk[p].resp.creationDate)
        /\ store[domain[p].id].created # ZeroTime
        /\ store[domain[p].id].expiry = ZeroTime
        /\ store[domain[p].id].registrar = "" /\ store[domain[p].id].status = ""

\* ---- the mail sender (MailSpec)

\* smtp.SendMail returned the benign error
Benign(raw) == raw # Nil /\ Contains(raw, "short response")

\* C28: the mail sender's Send returns no error exactly when smtp.SendMail
\* returned none or one whose text contains "short response"; any other error
\* is returned, wrapped, and the dispatcher records that attempt as "failed",
\* the others as "success".
C28_MailBenignError ==
    \A p \in Procs :
        InDispatch(p) =>
            \A k \in 1..Len(snd[p].attempted) :
                LET a == snd[p].attempted[k]
                IN a.channel = "*services.EmailNotifier" =>
                      /\ a.err = Nil <=> (a.raw = Nil \/ Benign(a.raw))
                      /\ a.err # Nil =>
                            /\ Head(a.err) = "failed to send email"
                            /\ Unwrap(a.err) = a.raw
                      /\ Appended(p)[k].type = a.channel
                      /\ Appended(p)[k].status =
                            IF a.raw = Nil \/ Benign(a.raw) THEN "success" ELSE "failed"
                      /\ (pc[p] = "done" /\ Len(notifiers) = 1) =>
                            (ret[p] = Nil <=> (a.raw = Nil \/ Benign(a.raw)))

\* a dispatch by mail alone answered success after smtp.SendMail returned the
\* benign error behind another message, and its attempt is recorded "success";
\* an earlier dispatch, whose SMTP error was another one, is recorded "failed"
C28_Witness ==
    \E p \in Procs :
        /\ Dispatched(p) /\ notifiers = <<"*services.EmailNotifier">>
        /\ snd[p].attempted[1].raw = <<"read tcp", "short response">>
        /\ ret[p] = Nil
        /\ snd[p].base = 1
        /\ notifications[1].status = "failed"
        /\ notifications[2].status = "success"

\* ---- stale days_remaining (Spec)

\* C29: a check whose lookup succeeded without expiry evaluates the thresholds
\* against the days_remaining the record had at the call: once it has saved and
\* returned, it has dispatched, with that value, iff that value equals a
\* threshold; this holds for every such check, also for one that follows a
\* check that dispatched for the same value.
C29_StaleDaysDispatch ==
    \A p \in Procs :
        (LookupOk(p) /\ chk[p].q.info.expiry = ZeroTime) =>
            /\ domain[p].days = chk[p].before.days
            /\ chk[p].sent # <<>> => chk[p].sent = <<chk[p].before.days>>
            /\ (chk[p].saved /\ Returned(p)) =>
                  /\ chk[p].evals = 1
                  /\ Matches(chk[p].before.days) <=> chk[p].sent = <<chk[p].before.days>>
                  /\ Matches(chk[p].before.days) =>
                        /\ chk[p].attempts = Len(notifiers)
                        /\ fired[domain[p].id] >= 1
                        /\ chk[p].before.lastChecked # ZeroTime =>
                              fired[domain[p].id] >= 2

\* a record whose days_remaining an earlier check had set to a threshold, and
\* dispatched for, was checked again; the lookup gave no expiry and the check
\* dispatched for the same value again
C29_Witness ==
    \E p \in Procs :
        /\ LookupOk(p) /\ chk[p].q.info.expiry = ZeroTime
        /\ chk[p].saved /\ Returned(p)
        /\ chk[p].before.lastChecked # ZeroTime
        /\ chk[p].before.expiry # ZeroTime
        /\ chk[p].before.days # 0
        /\ Matches(chk[p].before.days)
        /\ chk[p].sent = <<chk[p].before.days>>
        /\ store[domain[p].id].expiry = ZeroTime
        /\ fired[domain[p].id] = 2
        /\ Len(notifiers) >= 1

\* ---- the scheduler (SchedulerSpec)

\* a call of CheckAllDomains by p is in progress
BatchRunning(p) == op[p] = "CheckAllDomains" /\ pc[p] \notin {"idle", "done"}

\* C31 as claimed: at most one call of CheckAllDomains is in progress at any
\* time.
C31_NoOverlappingBatches ==
    Cardinality({ p \in Procs : BatchRunning(p) }) <= 1

\* ---- the check's two clock reads (ClockSpec)

\* C32 as claimed: with checks only, every stored record that a check has
\* stamped and that has an expiry has, as days_remaining, the whole days from
\* its last_checked to its expiry; a record whose days_remaining is anything
\* else has no expiry.
C32_DaysMatchLastChecked ==
    \A id \in DomainIDs :
        (store[id] # NoDomain /\ store[id].lastChecked # ZeroTime
                              /\ store[id].expiry # ZeroTime)
            => store[id].days = DaysUntil(store[id].expiry, store[id].lastChecked)

====
